---- MODULE Spec2Model ----
\* US accidents risk package: the RiskAnalyzer of accidents/analyzer.py over the
\* DataLoader of accidents/data_loader.py.  One analyzer, its lazily loaded DuckDB
\* connection, and the aggregation queries it issues against the table 'accidents'
\* (Spec); the objects from their construction on, with the analyzer's context
\* manager (SpecLifecycle); the DataLoader used on its own (SpecLoader).
EXTENDS Integers, Sequences, FiniteSets, TLC

\* ---------------------------------------------------------------------------
\* Bounds of the model
\* ---------------------------------------------------------------------------
\* largest number of rows of the source files enumerated in full (TenRowsCA and
\* MixedFile are larger files added to them)
MaxRows == 2
\* largest number of connections duckdb.connect() hands out in one behaviour
MaxConns == 2

\* ---------------------------------------------------------------------------
\* Values: SQL NULL is the empty tuple, a non-null value v is <<v>>
\* ---------------------------------------------------------------------------
Null == <<>>
Val(v) == <<v>>

\* timestamps are <<year, month, day, hour>>
T2020 == <<2020, 1, 6, 8>>
T2021 == <<2021, 7, 4, 17>>

Row(t, s, v, w) == [Start_Time |-> t, State |-> s, Severity |-> v, Weather_Condition |-> w]

\* the rows a source file is made of: complete rows, and rows with one key field
\* null or empty
Rows ==
    { Row(T2020, Val("CA"), Val(2), Val("Clear")),
      Row(T2020, Val("CA"), Val(4), Val("Rain")),
      Row(T2021, Val("CA"), Val(3), Val("Clear")),
      Row(T2020, Val("TX"), Val(2), Val("Rain")),
      Row(Null,  Val("CA"), Val(4), Val("Clear")),
      Row(T2020, Null,      Val(2), Val("Clear")),
      Row(T2020, Val(""),   Val(4), Val("Rain")),
      Row(T2021, Val("TX"), Null,   Val("Clear")),
      Row(T2020, Val("CA"), Val(2), Null),
      Row(T2020, Val("TX"), Val(4), Val("")) }

\* columns of the relation read_csv_auto infers from the header
Columns == {"Start_Time", "State", "Severity", "Weather_Condition"}

\* key_columns of validate_data; the header of a complete file has all of them
\* (no row of the files modelled lacks its ID)
key_columns == <<"ID", "Start_Time", "State", "Severity", "Weather_Condition">>
KeyColumnSet == {key_columns[i] : i \in 1..Len(key_columns)}

\* a relation is a bag of rows: the multiplicity of every row of Rows
EmptyBag == [r \in Rows |-> 0]

RECURSIVE BagsUpTo(_)
BagsUpTo(n) ==
    IF n = 0 THEN {EmptyBag}
    ELSE LET P == BagsUpTo(n - 1)
         IN  P \cup {[b EXCEPT ![r] = @ + 1] : b \in P, r \in Rows}

\* the file of the rate scenario: ten CA rows of one year, three of them severe
TenRowsCA ==
    [r \in Rows |->
        IF r = Row(T2020, Val("CA"), Val(2), Val("Clear")) THEN 7
        ELSE IF r = Row(T2020, Val("CA"), Val(4), Val("Rain")) THEN 3
        ELSE 0]

\* a file of six rows: two equal rows, three more complete rows (another
\* weather, another year, another state), and a row with an empty state
MixedFile ==
    [r \in Rows |->
        IF r = Row(T2020, Val("CA"), Val(2), Val("Clear")) THEN 2
        ELSE IF r \in {Row(T2020, Val("CA"), Val(4), Val("Rain")),
                       Row(T2021, Val("CA"), Val(3), Val("Clear")),
                       Row(T2020, Val("TX"), Val(2), Val("Rain")),
                       Row(T2020, Val(""), Val(4), Val("Rain"))} THEN 1
        ELSE 0]

\* the file of the tie scenario: a CA row of 2020 with severity 2 and a CA row
\* of 2020 with severity 4
TwoRowsCA ==
    [r \in Rows |->
        IF r \in {Row(T2020, Val("CA"), Val(2), Val("Clear")),
                  Row(T2020, Val("CA"), Val(4), Val("Rain"))} THEN 1 ELSE 0]

Datasets == BagsUpTo(MaxRows) \cup {TenRowsCA, MixedFile}

\* the file at data_path: a path with no file, a file read_csv_auto cannot
\* ingest, a CSV file with the columns cols and the rows b
MissingFile   == [exists |-> FALSE, ok |-> FALSE, columns |-> {}, rows |-> EmptyBag]
MalformedFile == [exists |-> TRUE, ok |-> FALSE, columns |-> {}, rows |-> EmptyBag]
CsvFile(cols, b) == [exists |-> TRUE, ok |-> TRUE, columns |-> cols, rows |-> b]

\* the files the analyzer is run on: every column present
Files == {MalformedFile} \cup {CsvFile(KeyColumnSet, b) : b \in Datasets}

\* the files a DataLoader is run on: any of the key columns may be absent from
\* the header (the fields of an absent column play no part)
LoaderFiles ==
    {MalformedFile} \cup
    {CsvFile(cols, b) : cols \in SUBSET KeyColumnSet, b \in BagsUpTo(1) \cup {MixedFile}}

\* the levels lists callers pass to compute_risk ("Region" is no column)
LevelLists ==
    { <<>>,
      <<"State">>,
      <<"State", "Severity">>,
      <<"Weather_Condition">>,
      <<"Severity", "Weather_Condition", "State">>,
      <<"Region">> }

\* the arguments of a call that takes none
NoArgs == [levels |-> <<>>, include_weather |-> FALSE, include_time |-> FALSE]

\* no second analyzer, no run of the command line
NoOther == [exists |-> FALSE]
NoCli == [pc |-> "none"]

VARIABLES
    file,           \* the CSV at data_path: [exists, ok, columns, rows]; ok = FALSE: ingestion raises
    scope,          \* what the caller holds: "none", "loader" (a DataLoader), "plain" (a
                    \* RiskAnalyzer), "with" (a RiskAnalyzer inside its with block), "left"
    data_loaded,    \* RiskAnalyzer._data_loaded
    conn,           \* RiskAnalyzer.conn: 0 is None, h > 0 the h-th connection
    conns,          \* the connections opened so far: [open, loaded, accidents]
    result,         \* outcome of the last call on the analyzer
    other,          \* a second RiskAnalyzer on the same file, while the caller is
                    \* turned to the first: [data_loaded, conn, result]
    cli             \* a run of the command line: [pc, args, out, files, messages, code]

vars == <<file, scope, data_loaded, conn, conns, result, other, cli>>

\* ---------------------------------------------------------------------------
\* Arithmetic helpers
\* ---------------------------------------------------------------------------
RECURSIVE SumFn(_, _)
SumFn(f, S) ==
    IF S = {} THEN 0
    ELSE LET x == CHOOSE y \in S : TRUE
         IN  f[x] + SumFn(f, S \ {x})

InList(x, s) == \E i \in 1..Len(s) : s[i] = x

\* AVG(Severity) over the rows of S: <<sum, n>> over the non-null severities
\* (the exact quotient sum / n), NULL when there is none
AvgSeverity(table, S) ==
    LET nn == {r \in S : r.Severity # Null}
        n  == SumFn(table, nn)
    IN  IF n = 0 THEN Null
        ELSE <<SumFn([r \in Rows |-> IF r \in nn THEN table[r] * r.Severity[1] ELSE 0], nn), n>>

\* all orders of the elements of S
Perms(S) ==
    {f \in [1..Cardinality(S) -> S] : \A i, j \in 1..Cardinality(S) : i # j => f[i] # f[j]}

\* ORDER BY: every order of S in which no row comes before one that sorts
\* strictly before it (before: the pairs <<a, b>> where a sorts strictly before
\* b); rows the sort keys do not separate come in any order
OrderBy(S, before) ==
    {s \in Perms(S) : \A i, j \in 1..Len(s) : i < j => <<s[j], s[i]>> \notin before}

\* ---------------------------------------------------------------------------
\* data_loader.py
\* ---------------------------------------------------------------------------
\* DataLoader.__init__ without the test of data_path.exists()
DataLoader_init_unchecked == ""

\* DataLoader.__init__: the exception it raises, "" when it returns
DataLoader_init == IF ~file.exists THEN "FileNotFoundError" ELSE ""

\* load_to_duckdb without 'conn.close()' in the except branch
load_to_duckdb_left_open(cs) ==
    IF file.ok
    THEN [conns  |-> Append(cs, [open |-> TRUE, loaded |-> TRUE, accidents |-> file.rows]),
          ret    |-> Len(cs) + 1,
          raised |-> FALSE]
    ELSE [conns  |-> Append(cs, [open |-> TRUE, loaded |-> FALSE, accidents |-> EmptyBag]),
          ret    |-> 0,
          raised |-> TRUE]

\* DataLoader.load_to_duckdb: connect, CREATE TABLE accidents AS SELECT * FROM
\* read_csv_auto(path); on an exception the connection is closed and the
\* exception re-raised
load_to_duckdb(cs) ==
    IF file.ok
    THEN [conns  |-> Append(cs, [open |-> TRUE, loaded |-> TRUE, accidents |-> file.rows]),
          ret    |-> Len(cs) + 1,
          raised |-> FALSE]
    ELSE [conns  |-> Append(cs, [open |-> FALSE, loaded |-> FALSE, accidents |-> EmptyBag]),
          ret    |-> 0,
          raised |-> TRUE]

\* loader.load_to_duckdb() called by the holder of a DataLoader, who gets the
\* open connection
loader_load_to_duckdb ==
    LET l == load_to_duckdb(conns)
    IN  /\ scope = "loader"
        /\ Len(conns) < MaxConns
        /\ conns' = l.conns
        /\ result' = [op |-> "load_to_duckdb", args |-> NoArgs,
                      status |-> IF l.raised THEN "error" ELSE "ok",
                      error |-> IF l.raised THEN "LoadError" ELSE "",
                      conn |-> l.ret, dims |-> <<>>, rows |-> <<>>]
        /\ UNCHANGED <<cli, other, file, scope, data_loaded, conn>>

\* the key columns read_csv_auto gives a type other than VARCHAR
TypedColumns == {"Start_Time", "Severity"}

\* "col" IS NULL OR "col" = '' (no timestamp and no number equals '')
IsMissing(col, r) ==
    IF col = "ID" THEN FALSE
    ELSE r[col] = Null \/ (col \notin TypedColumns /\ r[col] = Val(""))

\* the loop over key_columns (lines 117-128) from the i-th column on, entries
\* being the missing_values collected so far: the outcomes it can end in.  The
\* loop stands in no try of its own: comparing a TIMESTAMP or BIGINT column
\* with '' is a conversion error where the engine casts the literal to the
\* type of the column, and missing / total_rows raises on a file of no rows.
RECURSIVE missing_values(_, _, _)
missing_values(f, i, entries) ==
    IF i > Len(key_columns) THEN {[error |-> "", entries |-> entries]}
    ELSE LET col     == key_columns[i]
             total   == SumFn(f.rows, Rows)
             missing == SumFn(f.rows, {r \in Rows : IsMissing(col, r)})
         IN  IF col \notin f.columns THEN missing_values(f, i + 1, entries)
             ELSE (IF col \in TypedColumns
                   THEN {[error |-> "ConversionException", entries |-> entries]}
                   ELSE {})
                  \cup
                  (IF total = 0
                   THEN {[error |-> "ZeroDivisionError", entries |-> entries]}
                   ELSE missing_values(f, i + 1,
                            entries @@ (col :> [count |-> missing,
                                                percentage |-> <<missing * 100, total>>])))

\* the smallest and the largest element of a non-empty set of integers
MinOf(S) == CHOOSE x \in S : \A y \in S : x <= y
MaxOf(S) == CHOOSE x \in S : \A y \in S : y <= x

\* date_range (lines 131-139): None when the query raises (no column Start_Time)
date_range(f) ==
    LET times == {r.Start_Time : r \in {x \in Rows : f.rows[x] > 0 /\ x.Start_Time # Null}}
    IN  IF "Start_Time" \notin f.columns THEN Null
        ELSE IF times = {} THEN Val(<<Null, Null>>)
        ELSE Val(<<CHOOSE t \in times : \A u \in times : t = u \/ \E k \in 1..4 : t[k] < u[k] /\ \A j \in 1..(k - 1) : t[j] = u[j],
                   CHOOSE t \in times : \A u \in times : t = u \/ \E k \in 1..4 : u[k] < t[k] /\ \A j \in 1..(k - 1) : t[j] = u[j]>>)

\* severity_range (lines 141-150): MIN, MAX and COUNT(DISTINCT) of the non-null
\* severities, None when the query raises (no column Severity)
severity_range(f) ==
    LET sev == {r.Severity[1] : r \in {x \in Rows : f.rows[x] > 0 /\ x.Severity # Null}}
    IN  IF "Severity" \notin f.columns THEN Null
        ELSE IF sev = {} THEN Val(<<Null, Null, 0>>)
        ELSE Val(<<Val(MinOf(sev)), Val(MaxOf(sev)), Cardinality(sev)>>)

\* unique_states (lines 152-161): None when the query raises (no column State)
unique_states(f) ==
    IF "State" \notin f.columns THEN Null
    ELSE Val(Cardinality({r.State[1] : r \in {x \in Rows : f.rows[x] > 0 /\ x.State # Null /\ x.State # Val("")}}))

\* the body of validate_data on the file f: an exception of CREATE TEMPORARY
\* TABLE or of the loop over key_columns is re-raised (lines 165-167), otherwise
\* the report is returned
validation_results(f) ==
    IF ~f.ok THEN {[status |-> "error", error |-> "LoadError", rows |-> <<>>]}
    ELSE {IF m.error # ""
          THEN [status |-> "error", error |-> m.error, rows |-> <<>>]
          ELSE [status |-> "ok", error |-> "",
                rows |-> [total_rows |-> SumFn(f.rows, Rows),
                          missing_values |-> m.entries,
                          date_range |-> date_range(f),
                          severity_range |-> severity_range(f),
                          unique_states |-> unique_states(f)]]
          : m \in missing_values(f, 1, <<>>)}

\* DataLoader.validate_data: a connection of its own, closed in the finally
\* clause whatever the outcome
validate_data ==
    /\ scope = "loader"
    /\ Len(conns) < MaxConns
    /\ \E v \in validation_results(file) :
           result' = [op |-> "validate_data", args |-> NoArgs, status |-> v.status,
                      error |-> v.error, conn |-> 0, dims |-> <<>>, rows |-> v.rows]
    /\ conns' = Append(conns, [open |-> FALSE, loaded |-> FALSE, accidents |-> EmptyBag])
    /\ UNCHANGED <<cli, other, file, scope, data_loaded, conn>>

\* the file sizes st_size reports, in units of 1024 bytes: an empty file, small
\* files, the sizes around 2500 MB, and the size of the full dataset
FileSizes == {0, 1, 1024, 2559999, 2560000, 2560001, 3145728}

\* 1024 * 1024 bytes in units of 1024 bytes
KiBPerMB == 1024
\* the divisor 2.5 as the fraction 5 / 2
MemoryDivisor == <<5, 2>>
\* the estimate above which DuckDB is recommended
RecommendAbove == 1000

\* 'DuckDB' if estimated_memory_mb >= 1000 else 'Pandas'
recommended_approach_at_least(estimated_memory_mb) ==
    IF estimated_memory_mb[1] >= RecommendAbove * estimated_memory_mb[2] THEN "DuckDB" ELSE "Pandas"

\* 'DuckDB' if estimated_memory_mb > 1000 else 'Pandas', on the fraction
\* estimated_memory_mb
recommended_approach(estimated_memory_mb) ==
    IF estimated_memory_mb[1] > RecommendAbove * estimated_memory_mb[2] THEN "DuckDB" ELSE "Pandas"

\* DataLoader.estimate_memory_usage on a file of st_size = size * 1024 bytes:
\* file_size_mb = st_size / (1024 * 1024), estimated_memory_mb = file_size_mb /
\* 2.5, both as exact fractions
estimate_memory_usage(size) ==
    LET file_size_mb        == <<size, KiBPerMB>>
        estimated_memory_mb == <<file_size_mb[1] * MemoryDivisor[2], file_size_mb[2] * MemoryDivisor[1]>>
    IN  /\ scope = "loader"
        /\ result' = [op |-> "estimate_memory_usage", args |-> NoArgs, status |-> "ok",
                      error |-> "", conn |-> 0, dims |-> <<>>,
                      rows |-> [file_size_mb |-> file_size_mb,
                                estimated_memory_mb |-> estimated_memory_mb,
                                recommended_approach |-> recommended_approach(estimated_memory_mb)]]
        /\ UNCHANGED <<cli, other, file, scope, data_loaded, conn, conns>>

\* ---------------------------------------------------------------------------
\* analyzer.py: loading
\* ---------------------------------------------------------------------------
\* _ensure_data_loaded without 'self._data_loaded = True'
ensure_data_loaded_flag_unset ==
    IF ~data_loaded
    THEN LET l == load_to_duckdb(conns)
         IN  IF l.raised
             THEN [data_loaded |-> data_loaded, conn |-> conn, conns |-> l.conns, raised |-> TRUE]
             ELSE [data_loaded |-> data_loaded, conn |-> l.ret, conns |-> l.conns, raised |-> FALSE]
    ELSE [data_loaded |-> data_loaded, conn |-> conn, conns |-> conns, raised |-> FALSE]

\* _ensure_data_loaded without the 'if not self._data_loaded' test
ensure_data_loaded_unguarded ==
    LET l == load_to_duckdb(conns)
    IN  IF l.raised
        THEN [data_loaded |-> data_loaded, conn |-> conn, conns |-> l.conns, raised |-> TRUE]
        ELSE [data_loaded |-> TRUE, conn |-> l.ret, conns |-> l.conns, raised |-> FALSE]

\* _ensure_data_loaded taking the connection another analyzer of the process
\* holds open instead of one of its own
ensure_data_loaded_shared ==
    IF ~data_loaded
    THEN IF other.exists /\ other.data_loaded
         THEN [data_loaded |-> TRUE, conn |-> other.conn, conns |-> conns, raised |-> FALSE]
         ELSE LET l == load_to_duckdb(conns)
              IN  IF l.raised
                  THEN [data_loaded |-> data_loaded, conn |-> conn, conns |-> l.conns, raised |-> TRUE]
                  ELSE [data_loaded |-> TRUE, conn |-> l.ret, conns |-> l.conns, raised |-> FALSE]
    ELSE [data_loaded |-> data_loaded, conn |-> conn, conns |-> conns, raised |-> FALSE]

\* RiskAnalyzer._ensure_data_loaded: the analyzer's fields after the call, and
\* whether the call raised
ensure_data_loaded ==
    IF ~data_loaded
    THEN LET l == load_to_duckdb(conns)
         IN  IF l.raised
             THEN [data_loaded |-> data_loaded, conn |-> conn, conns |-> l.conns, raised |-> TRUE]
             ELSE [data_loaded |-> TRUE, conn |-> l.ret, conns |-> l.conns, raised |-> FALSE]
    ELSE [data_loaded |-> data_loaded, conn |-> conn, conns |-> conns, raised |-> FALSE]

\* a call may run while the connection it opens, if any, is within the bound
CanCall == Len(ensure_data_loaded.conns) <= MaxConns

\* ---------------------------------------------------------------------------
\* The query engine: expressions of the select lists
\* ---------------------------------------------------------------------------
YearSql  == "EXTRACT(year FROM Start_Time::TIMESTAMP)"
MonthSql == "EXTRACT(month FROM Start_Time::TIMESTAMP)"
HourSql  == "EXTRACT(hour FROM Start_Time::TIMESTAMP)"

\* value of a select expression on a row; EXTRACT of NULL is NULL
EvalExpr(e, r) ==
    CASE e = YearSql  -> IF r.Start_Time = Null THEN Null ELSE Val(r.Start_Time[1])
      [] e = MonthSql -> IF r.Start_Time = Null THEN Null ELSE Val(r.Start_Time[2])
      [] e = HourSql  -> IF r.Start_Time = Null THEN Null ELSE Val(r.Start_Time[4])
      [] OTHER        -> r[e]

\* a select item is the token list of its text, <<column>> or <<expr, "as", alias>>
LastAs(item) ==
    LET S == {i \in 1..Len(item) : item[i] = "as"}
    IN  IF S = {} THEN 0 ELSE CHOOSE i \in S : \A j \in S : j <= i

\* Python's col.split(' as ')[-1]
SplitAsLast(item) == SubSeq(item, LastAs(item) + 1, Len(item))

\* the expression a GROUP BY name denotes: a column of the relation, else the
\* select item with that alias, else nothing (binder error)
BindName(n, select) ==
    IF Len(n) = 1 /\ n[1] \in Columns THEN n[1]
    ELSE LET S == {i \in 1..Len(select) : LastAs(select[i]) > 0 /\ SplitAsLast(select[i]) = n}
         IN  IF S = {} THEN "" ELSE select[CHOOSE i \in S : \A j \in S : i <= j][1]

\* a select item can be bound: a column, or a derived expression with an alias
ItemBound(item) ==
    IF LastAs(item) = 0 THEN Len(item) = 1 /\ item[1] \in Columns
    ELSE item[1] \in {YearSql, MonthSql, HourSql}

\* ---------------------------------------------------------------------------
\* analyzer.py: compute_risk
\* ---------------------------------------------------------------------------
\* the grouping columns without the "'Weather_Condition' not in levels" test
group_cols_weather_always(levels, include_weather, include_time) ==
    LET base == <<<<YearSql, "as", "year">>>> \o [i \in 1..Len(levels) |-> <<levels[i]>>]
        withWeather == IF include_weather THEN Append(base, <<"Weather_Condition">>) ELSE base
    IN  IF include_time
        THEN withWeather \o << <<MonthSql, "as", "month">>, <<HourSql, "as", "hour">> >>
        ELSE withWeather

\* the grouping columns compute_risk builds (lines 60-70)
group_cols(levels, include_weather, include_time) ==
    LET base == <<<<YearSql, "as", "year">>>> \o [i \in 1..Len(levels) |-> <<levels[i]>>]
        withWeather ==
            IF include_weather /\ ~InList("Weather_Condition", levels)
            THEN Append(base, <<"Weather_Condition">>)
            ELSE base
    IN  IF include_time
        THEN withWeather \o << <<MonthSql, "as", "month">>, <<HourSql, "as", "hour">> >>
        ELSE withWeather

\* the names of the GROUP BY clause (line 74)
group_by_cols(cols) == [i \in 1..Len(cols) |-> SplitAsLast(cols[i])]

\* the WHERE clause without "AND State != ''"
RiskFilter_empty_state(r) ==
    /\ r.Start_Time # Null
    /\ r.State # Null
    /\ r.Severity # Null

\* WHERE clause of compute_risk and compute_state_risk_rates
RiskFilter(r) ==
    /\ r.Start_Time # Null
    /\ r.State # Null /\ r.State # Val("")
    /\ r.Severity # Null

\* ORDER BY year, accident_count (ascending)
RiskBefore_count_ascending(a, b) ==
    \/ a.key[1][1] < b.key[1][1]
    \/ a.key[1] = b.key[1] /\ a.accident_count < b.accident_count

\* ORDER BY year, accident_count DESC
RiskBefore(a, b) ==
    \/ a.key[1][1] < b.key[1][1]
    \/ a.key[1] = b.key[1] /\ a.accident_count > b.accident_count

\* the query of compute_risk with a name that cannot be bound answered by an
\* empty result instead of an error
RiskQuery_unknown_column_ignored(table, select, groupby) ==
    IF \E i \in 1..Len(select) : ~ItemBound(select[i]) \/ BindName(groupby[i], select) = ""
    THEN {[status |-> "ok", error |-> "", rows |-> <<>>]}
    ELSE LET exprs  == [i \in 1..Len(groupby) |-> BindName(groupby[i], select)]
             KeyOf(r) == [i \in 1..Len(exprs) |-> EvalExpr(exprs[i], r)]
             rs     == {r \in Rows : table[r] > 0 /\ RiskFilter(r)}
             keys   == {KeyOf(r) : r \in rs}
             groups == {[key |-> k,
                         accident_count |-> SumFn(table, {r \in rs : KeyOf(r) = k}),
                         avg_severity |-> AvgSeverity(table, {r \in rs : KeyOf(r) = k})]
                        : k \in keys}
         IN  {[status |-> "ok", error |-> "", rows |-> s] : s \in OrderBy(groups, {p \in groups \X groups : RiskBefore(p[1], p[2])})}

\* the query of compute_risk (lines 76-87) on a relation: the set of results the
\* engine may return, a binder error or the grouped rows in an admissible order
RiskQuery(table, select, groupby) ==
    IF \E i \in 1..Len(select) : ~ItemBound(select[i]) \/ BindName(groupby[i], select) = ""
    THEN {[status |-> "error", error |-> "BinderException", rows |-> <<>>]}
    ELSE LET exprs  == [i \in 1..Len(groupby) |-> BindName(groupby[i], select)]
             KeyOf(r) == [i \in 1..Len(exprs) |-> EvalExpr(exprs[i], r)]
             rs     == {r \in Rows : table[r] > 0 /\ RiskFilter(r)}
             keys   == {KeyOf(r) : r \in rs}
             groups == {[key |-> k,
                         accident_count |-> SumFn(table, {r \in rs : KeyOf(r) = k}),
                         avg_severity |-> AvgSeverity(table, {r \in rs : KeyOf(r) = k})]
                        : k \in keys}
         IN  {[status |-> "ok", error |-> "", rows |-> s] : s \in OrderBy(groups, {p \in groups \X groups : RiskBefore(p[1], p[2])})}

\* conn.execute(query): a closed connection raises, an open one runs the query
\* on its relation
Execute(cs, h, outcomes) ==
    IF ~cs[h].open
    THEN {[status |-> "error", error |-> "ConnectionException", rows |-> <<>>]}
    ELSE outcomes

\* the relation a query of the method runs on: table accidents of the
\* connection the analyzer holds after _ensure_data_loaded
Accidents ==
    LET e == ensure_data_loaded
    IN  IF e.raised \/ e.conn = 0 THEN EmptyBag ELSE e.conns[e.conn].accidents

\* the caller can call a method of the analyzer: it holds one and, inside a
\* with block, no exception is on its way out of the block
InBody == scope \in {"plain", "with"} /\ (scope = "with" => result.status # "error")

\* an analysis method that drops its connection when its query raises
Analysis_error_unloads(op, args, dims, outcomes) ==
    LET e == ensure_data_loaded
    IN  /\ InBody
        /\ CanCall
        /\ IF e.raised
           THEN /\ result' = [op |-> op, args |-> args, status |-> "error", error |-> "LoadError",
                              conn |-> 0, dims |-> <<>>, rows |-> <<>>]
                /\ data_loaded' = e.data_loaded /\ conn' = e.conn /\ conns' = e.conns
           ELSE \E q \in Execute(e.conns, e.conn, outcomes) :
                    /\ result' = [op |-> op, args |-> args, status |-> q.status, error |-> q.error,
                                  conn |-> e.conn, dims |-> dims, rows |-> q.rows]
                    /\ data_loaded' = (e.data_loaded /\ q.status = "ok")
                    /\ conn' = e.conn
                    /\ conns' = IF q.status = "ok" THEN e.conns
                                ELSE [e.conns EXCEPT ![e.conn].open = FALSE]
        /\ UNCHANGED <<cli, other, file, scope>>

\* the shape every analysis method shares: self._ensure_data_loaded(), then
\* self.conn.execute(query) on the relation of the analyzer's connection; an
\* exception of either leaves the method at once
Analysis(op, args, dims, outcomes) ==
    LET e == ensure_data_loaded
    IN  /\ InBody
        /\ CanCall
        /\ data_loaded' = e.data_loaded
        /\ conn' = e.conn
        /\ conns' = e.conns
        /\ IF e.raised
           THEN result' = [op |-> op, args |-> args, status |-> "error", error |-> "LoadError",
                           conn |-> 0, dims |-> <<>>, rows |-> <<>>]
           ELSE \E q \in Execute(e.conns, e.conn, outcomes) :
                    result' = [op |-> op, args |-> args, status |-> q.status, error |-> q.error,
                               conn |-> e.conn, dims |-> dims, rows |-> q.rows]
        /\ UNCHANGED <<cli, other, file, scope>>

\* RiskAnalyzer.compute_risk(levels, include_weather, include_time)
compute_risk(levels, include_weather, include_time) ==
    LET cols == group_cols(levels, include_weather, include_time)
    IN  Analysis("compute_risk",
                 [levels |-> levels, include_weather |-> include_weather,
                  include_time |-> include_time],
                 group_by_cols(cols), RiskQuery(Accidents, cols, group_by_cols(cols)))

\* ---------------------------------------------------------------------------
\* analyzer.py: compute_state_risk_rates
\* ---------------------------------------------------------------------------
\* the CASE expression with Severity > 3
IsSevere_above3(r) == r.Severity # Null /\ r.Severity[1] > 3

\* Severity >= 3 of the CASE expression; a NULL severity satisfies no comparison
IsSevere(r) == r.Severity # Null /\ r.Severity[1] >= 3

\* ORDER BY year, total_accidents DESC
RatesBefore(a, b) ==
    \/ a.year < b.year
    \/ a.year = b.year /\ a.total_accidents > b.total_accidents

\* the query of compute_state_risk_rates (lines 100-113); x * 100.0 / y is the
\* exact quotient <<x * 100, y>>
RatesQuery(table) ==
    LET rs     == {r \in Rows : table[r] > 0 /\ RiskFilter(r)}
        keys   == {<<r.Start_Time[1], r.State[1]>> : r \in rs}
        In(k)  == {r \in rs : r.Start_Time[1] = k[1] /\ r.State[1] = k[2]}
        groups == {[year |-> k[1], State |-> k[2],
                    total_accidents |-> SumFn(table, In(k)),
                    severe_accidents |-> SumFn(table, {r \in In(k) : IsSevere(r)}),
                    severe_accident_rate |->
                        <<SumFn(table, {r \in In(k) : IsSevere(r)}) * 100, SumFn(table, In(k))>>]
                   : k \in keys}
    IN  {[status |-> "ok", error |-> "", rows |-> s] : s \in OrderBy(groups, {p \in groups \X groups : RatesBefore(p[1], p[2])})}

\* RiskAnalyzer.compute_state_risk_rates()
compute_state_risk_rates ==
    Analysis("compute_state_risk_rates", NoArgs, <<"year", "State">>, RatesQuery(Accidents))

\* ---------------------------------------------------------------------------
\* analyzer.py: compute_temporal_patterns
\* ---------------------------------------------------------------------------
\* EXTRACT(dow FROM date): 0 is Sunday
MonthOffset == <<0, 3, 2, 5, 0, 3, 5, 1, 4, 6, 2, 4>>

DayOfWeek(ts) ==
    LET y == IF ts[2] < 3 THEN ts[1] - 1 ELSE ts[1]
    IN  (y + (y \div 4) - (y \div 100) + (y \div 400) + MonthOffset[ts[2]] + ts[3]) % 7

\* the CASE expression with November left out of the Fall branch
Season_without_november(m) ==
    CASE m \in {12, 1, 2}  -> Val("Winter")
      [] m \in {3, 4, 5}   -> Val("Spring")
      [] m \in {6, 7, 8}   -> Val("Summer")
      [] m \in {9, 10}     -> Val("Fall")
      [] OTHER             -> Null

\* the CASE expression of the seasonal query; no branch taken is NULL
Season(m) ==
    CASE m \in {12, 1, 2}  -> Val("Winter")
      [] m \in {3, 4, 5}   -> Val("Spring")
      [] m \in {6, 7, 8}   -> Val("Summer")
      [] m \in {9, 10, 11} -> Val("Fall")
      [] OTHER             -> Null

\* WHERE Start_Time IS NOT NULL
TemporalFilter(r) == r.Start_Time # Null

\* ORDER BY hour / day_of_week / month with DESC
KeyBefore_descending(a, b) == a.key > b.key

\* ORDER BY hour / day_of_week / month
KeyBefore(a, b) == a.key < b.key
\* ORDER BY accident_count DESC
CountBefore(a, b) == a.accident_count > b.accident_count

\* the grouping expressions of the four patterns on a row with a start time
HourOf(r)   == r.Start_Time[4]
DowOf(r)    == DayOfWeek(r.Start_Time)
MonthOf(r)  == r.Start_Time[2]
SeasonOf(r) == Season(r.Start_Time[2])

PatternKey(pattern, r) ==
    CASE pattern = "hourly"   -> HourOf(r)
      [] pattern = "daily"    -> DowOf(r)
      [] pattern = "monthly"  -> MonthOf(r)
      [] pattern = "seasonal" -> SeasonOf(r)

\* one pattern: the rows with a start time grouped by the pattern's expression
PatternGroups(table, pattern) ==
    LET rs == {r \in Rows : table[r] > 0 /\ TemporalFilter(r)}
    IN  {[key |-> k,
          accident_count |-> SumFn(table, {r \in rs : PatternKey(pattern, r) = k}),
          avg_severity |-> AvgSeverity(table, {r \in rs : PatternKey(pattern, r) = k})]
         : k \in {PatternKey(pattern, r) : r \in rs}}

\* a pattern's rows in the order of its ORDER BY
PatternRows(table, pattern) ==
    LET G == PatternGroups(table, pattern)
    IN  IF pattern = "seasonal"
        THEN OrderBy(G, {p \in G \X G : CountBefore(p[1], p[2])})
        ELSE OrderBy(G, {p \in G \X G : KeyBefore(p[1], p[2])})

\* the four queries of compute_temporal_patterns (lines 133-183)
TemporalQuery(table) ==
    {[status |-> "ok", error |-> "",
      rows |-> [hourly |-> h, daily |-> d, monthly |-> m, seasonal |-> s]]
     : h \in PatternRows(table, "hourly"),
       d \in PatternRows(table, "daily"),
       m \in PatternRows(table, "monthly"),
       s \in PatternRows(table, "seasonal")}

\* RiskAnalyzer.compute_temporal_patterns()
compute_temporal_patterns ==
    Analysis("compute_temporal_patterns", NoArgs, <<>>, TemporalQuery(Accidents))

\* ---------------------------------------------------------------------------
\* analyzer.py: compute_weather_risk
\* ---------------------------------------------------------------------------
\* the WHERE clause without 'AND Severity IS NOT NULL'
WeatherFilter_any_severity(r) ==
    /\ r.State # Null /\ r.State # Val("")
    /\ r.Weather_Condition # Null /\ r.Weather_Condition # Val("")

\* WHERE clause of compute_weather_risk
WeatherFilter(r) ==
    /\ r.State # Null /\ r.State # Val("")
    /\ r.Weather_Condition # Null /\ r.Weather_Condition # Val("")
    /\ r.Severity # Null

\* collation of the state codes, for ORDER BY State
StateOrder == <<"", "CA", "TX">>
StateIndex(s) == CHOOSE i \in 1..Len(StateOrder) : StateOrder[i] = s

\* ORDER BY State, accident_count DESC
WeatherBefore(a, b) ==
    \/ StateIndex(a.State) < StateIndex(b.State)
    \/ a.State = b.State /\ a.accident_count > b.accident_count

\* position of x in the sequence s
IndexOf(x, s) == CHOOSE i \in 1..Len(s) : s[i] = x

\* RANK() in place of ROW_NUMBER(): groups of equal count share a rank
row_number_as_rank(g, order) ==
    1 + Cardinality({i \in 1..Len(order) : order[i].accident_count > g.accident_count})

\* ROW_NUMBER() OVER (PARTITION BY State ORDER BY COUNT(*) DESC): the position
\* of the group in the order the window sorts its partition into
row_number(g, order) == IndexOf(g, order)

\* the window without PARTITION BY State: the share of the whole result
state_percentage_unpartitioned(g, groups) ==
    <<g.accident_count * 100, SumFn([x \in groups |-> x.accident_count], groups)>>

\* COUNT(*) * 100.0 / SUM(COUNT(*)) OVER (PARTITION BY State): the exact quotient
\* of the group's count times 100 by the sum of the counts of its state's groups
state_percentage(g, groups) ==
    <<g.accident_count * 100,
      SumFn([x \in groups |-> x.accident_count], {x \in groups : x.State = g.State})>>

\* the query of compute_weather_risk (lines 196-210): groups, the two window
\* columns over each state's partition, then the final ORDER BY
WeatherQuery(table) ==
    LET rs       == {r \in Rows : table[r] > 0 /\ WeatherFilter(r)}
        keys     == {<<r.State[1], r.Weather_Condition[1]>> : r \in rs}
        In(k)    == {r \in rs : r.State[1] = k[1] /\ r.Weather_Condition[1] = k[2]}
        groups   == {[State |-> k[1], Weather_Condition |-> k[2],
                      accident_count |-> SumFn(table, In(k)),
                      avg_severity |-> AvgSeverity(table, In(k))] : k \in keys}
        states   == {g.State : g \in groups}
        Part(s)  == {g \in groups : g.State = s}
        Window(s) == OrderBy(Part(s), {p \in Part(s) \X Part(s) : CountBefore(p[1], p[2])})
        windows  == {w \in [states -> UNION {Window(s) : s \in states}] :
                        \A s \in states : w[s] \in Window(s)}
        Out(g, w) == [State |-> g.State, Weather_Condition |-> g.Weather_Condition,
                      accident_count |-> g.accident_count, avg_severity |-> g.avg_severity,
                      state_percentage |-> state_percentage(g, groups),
                      weather_rank |-> row_number(g, w[g.State])]
        Sorted(S) == OrderBy(S, {p \in S \X S : WeatherBefore(p[1], p[2])})
    IN  UNION {{[status |-> "ok", error |-> "", rows |-> s]
                : s \in Sorted({Out(g, w) : g \in groups})} : w \in windows}

\* RiskAnalyzer.compute_weather_risk()
compute_weather_risk ==
    Analysis("compute_weather_risk", NoArgs, <<"State", "Weather_Condition">>, WeatherQuery(Accidents))

\* ---------------------------------------------------------------------------
\* analyzer.py: generate_summary_report
\* ---------------------------------------------------------------------------
\* LIMIT of the top states query
TopStatesLimit == 10

\* timestamps compare field by field
TsLeq(a, b) ==
    \/ a = b
    \/ \E i \in 1..4 : a[i] < b[i] /\ \A j \in 1..(i - 1) : a[j] = b[j]

StateOk(r) == r.State # Null /\ r.State # Val("")

\* ORDER BY accidents DESC
AccidentsBefore(a, b) == a.accidents > b.accidents
\* ORDER BY Severity
SeverityBefore(a, b) == a.Severity < b.Severity

\* the first n elements of a sequence
Limit(s, n) == SubSeq(s, 1, IF Len(s) < n THEN Len(s) ELSE n)

\* the five queries of generate_summary_report (lines 224-254)
SummaryQuery(table) ==
    LET present == {r \in Rows : table[r] > 0}
        times   == {r.Start_Time : r \in {x \in present : x.Start_Time # Null}}
        range   == IF times = {} THEN <<Null, Null>>
                   ELSE <<CHOOSE t \in times : \A u \in times : TsLeq(t, u),
                          CHOOSE t \in times : \A u \in times : TsLeq(u, t)>>
        srows   == {r \in present : StateOk(r)}
        sgroups == {[State |-> s, accidents |-> SumFn(table, {r \in srows : r.State[1] = s})]
                    : s \in {r.State[1] : r \in srows}}
        vrows   == {r \in present : r.Severity # Null}
        vtotal  == SumFn(table, vrows)
        vgroups == {[Severity |-> v,
                     count |-> SumFn(table, {r \in vrows : r.Severity[1] = v}),
                     percentage |-> <<SumFn(table, {r \in vrows : r.Severity[1] = v}) * 100, vtotal>>]
                    : v \in {r.Severity[1] : r \in vrows}}
    IN  {[status |-> "ok", error |-> "",
          rows |-> [total_accidents |-> SumFn(table, Rows),
                    date_range |-> range,
                    states_covered |-> Cardinality({r.State[1] : r \in srows}),
                    top_states |-> Limit(top, TopStatesLimit),
                    severity_distribution |-> dist]]
         : top \in OrderBy(sgroups, {p \in sgroups \X sgroups : AccidentsBefore(p[1], p[2])}),
           dist \in OrderBy(vgroups, {p \in vgroups \X vgroups : SeverityBefore(p[1], p[2])})}

\* RiskAnalyzer.generate_summary_report()
generate_summary_report ==
    Analysis("generate_summary_report", NoArgs, <<>>, SummaryQuery(Accidents))

\* ---------------------------------------------------------------------------
\* analyzer.py: close
\* ---------------------------------------------------------------------------
\* close without 'self.conn.close()'
close_handle_left_open ==
    /\ InBody
    /\ IF conn # 0
       THEN data_loaded' = FALSE
       ELSE UNCHANGED data_loaded
    /\ result' = [op |-> "close", args |-> NoArgs, status |-> "ok", error |-> "", conn |-> conn,
                  dims |-> <<>>, rows |-> <<>>]
    /\ UNCHANGED <<cli, other, file, scope, conn, conns>>

\* close without the 'if self.conn' test: None has no method close
close_unconditional ==
    /\ InBody
    /\ IF conn # 0
       THEN /\ conns' = [conns EXCEPT ![conn].open = FALSE]
            /\ data_loaded' = FALSE
            /\ result' = [op |-> "close", args |-> NoArgs, status |-> "ok", error |-> "",
                          conn |-> conn, dims |-> <<>>, rows |-> <<>>]
       ELSE /\ UNCHANGED <<conns, data_loaded>>
            /\ result' = [op |-> "close", args |-> NoArgs, status |-> "error",
                          error |-> "AttributeError", conn |-> conn, dims |-> <<>>, rows |-> <<>>]
    /\ UNCHANGED <<cli, other, file, scope, conn>>

\* close without 'self._data_loaded = False'
close_flag_kept ==
    /\ InBody
    /\ IF conn # 0
       THEN conns' = [conns EXCEPT ![conn].open = FALSE]
       ELSE UNCHANGED conns
    /\ result' = [op |-> "close", args |-> NoArgs, status |-> "ok", error |-> "", conn |-> conn,
                  dims |-> <<>>, rows |-> <<>>]
    /\ UNCHANGED <<cli, other, file, scope, conn, data_loaded>>

\* RiskAnalyzer.close: if self.conn: self.conn.close(); self._data_loaded = False
close ==
    /\ InBody
    /\ IF conn # 0
       THEN /\ conns' = [conns EXCEPT ![conn].open = FALSE]
            /\ data_loaded' = FALSE
       ELSE UNCHANGED <<conns, data_loaded>>
    /\ result' = [op |-> "close", args |-> NoArgs, status |-> "ok", error |-> "", conn |-> conn,
                  dims |-> <<>>, rows |-> <<>>]
    /\ UNCHANGED <<cli, other, file, scope, conn>>

\* ---------------------------------------------------------------------------
\* Construction and the context manager
\* ---------------------------------------------------------------------------
\* what a call that is no analysis method leaves as its outcome
Outcome(op, error, h) ==
    [op |-> op, args |-> NoArgs, status |-> IF error = "" THEN "ok" ELSE "error",
     error |-> error, conn |-> h, dims |-> <<>>, rows |-> <<>>]

\* RiskAnalyzer.__init__: the exception it raises, "" when it returns; its only
\* statement that can raise is DataLoader(self.data_path)
RiskAnalyzer_init == DataLoader_init

\* loader = DataLoader(data_path): the caller gets the object unless __init__ raises
new_DataLoader ==
    /\ scope = "none"
    /\ scope' = IF DataLoader_init = "" THEN "loader" ELSE "none"
    /\ result' = Outcome("DataLoader", DataLoader_init, 0)
    /\ UNCHANGED <<cli, other, file, data_loaded, conn, conns>>

\* with RiskAnalyzer(data_path) as analyzer: __init__ (conn = None, _data_loaded
\* = False), then __enter__, which returns self; when __init__ raises there is
\* no object and no block
context_enter ==
    /\ scope = "none"
    /\ scope' = IF RiskAnalyzer_init = "" THEN "with" ELSE "none"
    /\ result' = Outcome("init", RiskAnalyzer_init, 0)
    /\ conn' = 0
    /\ data_loaded' = FALSE
    /\ UNCHANGED <<cli, other, file, conns>>

\* __exit__ without 'self.close()'
context_exit_without_close ==
    /\ scope = "with"
    /\ scope' = "left"
    /\ result' = Outcome("__exit__", result.error, conn)
    /\ UNCHANGED <<cli, other, file, conn, conns, data_loaded>>

\* RiskAnalyzer.__exit__ when the block is left, at its end, by a return or by
\* an exception: self.close(); it returns None, so an exception on its way out
\* of the block goes on to the caller
context_exit ==
    /\ scope = "with"
    /\ scope' = "left"
    /\ IF conn # 0
       THEN /\ conns' = [conns EXCEPT ![conn].open = FALSE]
            /\ data_loaded' = FALSE
       ELSE UNCHANGED <<conns, data_loaded>>
    /\ result' = Outcome("__exit__", result.error, conn)
    /\ UNCHANGED <<cli, other, file, conn>>

\* ---------------------------------------------------------------------------
\* data_loader.py: load_sample, get_column_info, and the holder of a connection
\* ---------------------------------------------------------------------------
\* the n_rows callers pass to load_sample: one row, and the default
SampleSizes == {1, 10000}

\* USING SAMPLE n ROWS: the relation itself when it has no more than n rows,
\* else any n of its rows
Samples(b, n) ==
    IF SumFn(b, Rows) <= n THEN {b}
    ELSE {s \in BagsUpTo(n) : SumFn(s, Rows) = n /\ \A r \in Rows : s[r] <= b[r]}

\* DataLoader.load_sample: a connection of its own, the sample read straight
\* from the file, the connection closed in the finally clause whatever the
\* outcome
load_sample(n_rows) ==
    /\ scope = "loader"
    /\ Len(conns) < MaxConns
    /\ IF ~file.ok
       THEN result' = [op |-> "load_sample", args |-> [n_rows |-> n_rows], status |-> "error",
                       error |-> "LoadError", conn |-> 0, dims |-> <<>>, rows |-> <<>>]
       ELSE \E sample_df \in Samples(file.rows, n_rows) :
                result' = [op |-> "load_sample", args |-> [n_rows |-> n_rows], status |-> "ok",
                           error |-> "", conn |-> 0, dims |-> <<>>, rows |-> sample_df]
    /\ conns' = Append(conns, [open |-> FALSE, loaded |-> FALSE, accidents |-> EmptyBag])
    /\ UNCHANGED <<cli, other, file, scope, data_loaded, conn>>

\* get_column_info without 'conn.close()' in the finally clause
get_column_info_left_open ==
    /\ scope = "loader"
    /\ Len(conns) < MaxConns
    /\ result' = [op |-> "get_column_info", args |-> NoArgs,
                  status |-> IF file.ok THEN "ok" ELSE "error",
                  error |-> IF file.ok THEN "" ELSE "LoadError",
                  conn |-> 0, dims |-> <<>>,
                  rows |-> IF file.ok THEN [column_name |-> file.columns] ELSE <<>>]
    /\ conns' = Append(conns, [open |-> TRUE, loaded |-> FALSE, accidents |-> EmptyBag])
    /\ UNCHANGED <<cli, other, file, scope, data_loaded, conn>>

\* DataLoader.get_column_info: a connection of its own, DESCRIBE of the
\* columns read_csv_auto finds in the file, the connection closed in the
\* finally clause whatever the outcome
get_column_info ==
    /\ scope = "loader"
    /\ Len(conns) < MaxConns
    /\ result' = [op |-> "get_column_info", args |-> NoArgs,
                  status |-> IF file.ok THEN "ok" ELSE "error",
                  error |-> IF file.ok THEN "" ELSE "LoadError",
                  conn |-> 0, dims |-> <<>>,
                  rows |-> IF file.ok THEN [column_name |-> file.columns] ELSE <<>>]
    /\ conns' = Append(conns, [open |-> FALSE, loaded |-> FALSE, accidents |-> EmptyBag])
    /\ UNCHANGED <<cli, other, file, scope, data_loaded, conn>>

\* conn.close() by the holder of a connection load_to_duckdb returned; closing
\* a closed connection does nothing
owner_close(h) ==
    /\ scope = "loader"
    /\ h \in 1..Len(conns)
    /\ conns[h].loaded
    /\ conns' = [conns EXCEPT ![h].open = FALSE]
    /\ result' = [op |-> "conn.close", args |-> NoArgs, status |-> "ok", error |-> "",
                  conn |-> h, dims |-> <<>>, rows |-> <<>>]
    /\ UNCHANGED <<cli, other, file, scope, data_loaded, conn>>

\* ---------------------------------------------------------------------------
\* cli.py: main
\* ---------------------------------------------------------------------------
\* the command lines: --analysis, --summary, --visualize, --levels (the default
\* and a list that names no column)
CliArgs ==
    [analysis : {"risk", "temporal", "weather", "severity", "all"},
     summary : BOOLEAN, visualize : BOOLEAN,
     levels : {<<"State", "Severity">>, <<"Region">>}]

\* what is at the --output path before the run: nothing, a directory, a file,
\* or nothing below a directory that does not exist either
OutStates == {"absent", "dir", "file", "no_parent"}

\* the files main is run on
CliFiles == {MissingFile, MalformedFile} \cup {CsvFile(KeyColumnSet, b) : b \in {EmptyBag, TenRowsCA, MixedFile}}

\* the statements of the with block after the summary branch, in their order:
\* the three analyses (lines 109-128) and the visualizations (lines 131-150)
Stmts == <<"risk", "temporal", "weather", "viz_new", "viz_risk", "viz_temporal", "viz_done">>

\* the statements that call a method of the analyzer
CallStmts == {"summary", "risk", "temporal", "weather", "viz_risk", "viz_temporal"}

\* the if tests of the block with 'weather' run for the selector severity too
Applies_weather_on_severity(stmt, a) ==
    CASE stmt = "risk"         -> a.analysis \in {"risk", "all"}
      [] stmt = "temporal"     -> a.analysis \in {"temporal", "all"}
      [] stmt = "weather"      -> a.analysis \in {"weather", "severity", "all"}
      [] stmt = "viz_new"      -> a.visualize
      [] stmt = "viz_risk"     -> a.visualize /\ a.analysis \in {"risk", "all"}
      [] stmt = "viz_temporal" -> a.visualize /\ a.analysis \in {"temporal", "all"}
      [] stmt = "viz_done"     -> a.visualize

\* the if tests of the block: args.analysis in [...], args.visualize
Applies(stmt, a) ==
    CASE stmt = "risk"         -> a.analysis \in {"risk", "all"}
      [] stmt = "temporal"     -> a.analysis \in {"temporal", "all"}
      [] stmt = "weather"      -> a.analysis \in {"weather", "all"}
      [] stmt = "viz_new"      -> a.visualize
      [] stmt = "viz_risk"     -> a.visualize /\ a.analysis \in {"risk", "all"}
      [] stmt = "viz_temporal" -> a.visualize /\ a.analysis \in {"temporal", "all"}
      [] stmt = "viz_done"     -> a.visualize

\* the statement run after the i-th one: the next whose test holds, else the
\* end of the block
StmtAfter(i, a) ==
    LET S == {j \in (i + 1)..Len(Stmts) : Applies(Stmts[j], a)}
    IN  IF S = {} THEN "leave" ELSE Stmts[CHOOSE j \in S : \A k \in S : j <= k]

\* the file of one temporal pattern: f"temporal_{pattern_type}.csv"
TemporalFile(k) ==
    CASE k = "hourly"   -> "temporal_hourly.csv"
      [] k = "daily"    -> "temporal_daily.csv"
      [] k = "monthly"  -> "temporal_monthly.csv"
      [] k = "seasonal" -> "temporal_seasonal.csv"

\* what follows the call of a statement when the call returned: the files
\* written and the exception raised, "" for none.  A plot or save_figure may
\* raise; plt.close(fig) (lines 142, 148) raises NameError, cli.py importing
\* no plt
AfterCall(stmt) ==
    CASE stmt = "summary"      -> {[files |-> {"summary_report.json"}, error |-> ""]}
      [] stmt = "risk"         -> {[files |-> {"risk_metrics.csv"}, error |-> ""]}
      [] stmt = "temporal"     -> {[files |-> {TemporalFile(k) : k \in DOMAIN result.rows}, error |-> ""]}
      [] stmt = "weather"      -> {[files |-> {"weather_analysis.csv"}, error |-> ""]}
      [] stmt = "viz_risk"     -> {[files |-> {}, error |-> "VisualizerError"],
                                   [files |-> {"geographic_distribution.png"}, error |-> "NameError"]}
      [] stmt = "viz_temporal" -> {[files |-> {}, error |-> "VisualizerError"],
                                   [files |-> {"time_patterns.png"}, error |-> "NameError"]}

\* lines 66-69: the run ends with status 1 when the data file does not exist
cli_check_data ==
    /\ cli.pc = "start"
    /\ IF ~file.exists
       THEN cli' = [cli EXCEPT !.pc = "exited", !.code = 1,
                               !.messages = @ \cup {"Data file not found"}]
       ELSE cli' = [cli EXCEPT !.pc = "mkdir"]
    /\ UNCHANGED <<file, scope, data_loaded, conn, conns, result, other>>

\* the run without output_dir.mkdir
cli_mkdir_skipped ==
    /\ cli.pc = "mkdir"
    /\ cli' = [cli EXCEPT !.pc = "with", !.messages = @ \cup {"Starting"}]
    /\ UNCHANGED <<file, scope, data_loaded, conn, conns, result, other>>

\* lines 72-77: output_dir.mkdir(exist_ok=True), outside the try: it raises on
\* a path that is a file and on a path whose parent is missing, and the
\* uncaught exception ends the run with a traceback and status 1
cli_mkdir ==
    /\ cli.pc = "mkdir"
    /\ IF cli.out \in {"file", "no_parent"}
       THEN /\ cli' = [cli EXCEPT !.pc = "exited", !.code = 1, !.messages = @ \cup {"Traceback"}]
            /\ result' = Outcome("main", IF cli.out = "file" THEN "FileExistsError"
                                                           ELSE "FileNotFoundError", 0)
       ELSE /\ cli' = [cli EXCEPT !.pc = "with", !.out = "dir", !.created = (cli.out = "absent"),
                                   !.messages = @ \cup {"Starting"}]
            /\ UNCHANGED result
    /\ UNCHANGED <<file, scope, data_loaded, conn, conns, other>>

\* line 81: with RiskAnalyzer(data_path) as analyzer
cli_with == cli.pc = "with" /\ result.op = "main" /\ context_enter

\* the with block is entered and the first statement chosen (args.summary
\* first); an exception of the constructor goes to the except clause
cli_entered ==
    /\ cli.pc = "with" /\ result.op = "init"
    /\ IF result.status = "error"
       THEN /\ cli' = [cli EXCEPT !.pc = "exited", !.code = 1,
                                   !.messages = @ \cup {"Error during analysis"}]
            /\ UNCHANGED result
       ELSE /\ cli' = [cli EXCEPT !.pc = IF cli.args.summary THEN "summary"
                                                               ELSE StmtAfter(0, cli.args)]
            /\ result' = Outcome("main", "", conn)
    /\ UNCHANGED <<file, scope, data_loaded, conn, conns, other>>

\* the calls of the block
cli_summary  == cli.pc = "summary" /\ result.op = "main" /\ generate_summary_report
\* analyzer.compute_risk(levels=args.levels): include_weather and include_time
\* take their defaults, True
cli_risk     == cli.pc = "risk" /\ result.op = "main" /\ compute_risk(cli.args.levels, TRUE, TRUE)
cli_temporal == cli.pc \in {"temporal", "viz_temporal"} /\ result.op = "main" /\ compute_temporal_patterns
cli_weather  == cli.pc = "weather" /\ result.op = "main" /\ compute_weather_risk
cli_rates    == cli.pc = "viz_risk" /\ result.op = "main" /\ compute_state_risk_rates

\* after a call: its exception leaves the block; otherwise the statement goes
\* on, writes its files and the next statement follows (return after the
\* summary, line 106)
cli_after_call ==
    /\ cli.pc \in CallStmts /\ result.op # "main"
    /\ IF result.status = "error"
       THEN /\ cli' = [cli EXCEPT !.pc = "raise", !.invoked = Append(@, cli.pc)]
            /\ UNCHANGED result
       ELSE \E o \in AfterCall(cli.pc) :
               /\ cli' = [cli EXCEPT
                            !.pc = IF o.error # "" THEN "raise"
                                   ELSE IF cli.pc = "summary" THEN "return"
                                   ELSE StmtAfter(CHOOSE i \in 1..Len(Stmts) : Stmts[i] = cli.pc, cli.args),
                            !.invoked = Append(@, cli.pc),
                            !.files = @ \cup o.files,
                            !.messages = @ \cup (IF o.error = "" THEN {"Saved"} ELSE {})]
               /\ result' = Outcome("main", o.error, conn)
    /\ UNCHANGED <<file, scope, data_loaded, conn, conns, other>>

\* lines 133 and 150: AccidentVisualizer(), which may raise, and the print
\* that ends the visualizations
cli_visualizer ==
    /\ cli.pc \in {"viz_new", "viz_done"}
    /\ \E error \in IF cli.pc = "viz_new" THEN {"", "VisualizerError"} ELSE {""} :
           /\ cli' = [cli EXCEPT !.pc = IF error # "" THEN "raise"
                                        ELSE StmtAfter(CHOOSE i \in 1..Len(Stmts) : Stmts[i] = cli.pc, cli.args)]
           /\ result' = Outcome("main", error, conn)
    /\ UNCHANGED <<file, scope, data_loaded, conn, conns, other>>

\* the block is left: at its end, by the return, by an exception
cli_exit == cli.pc \in {"leave", "return", "raise"} /\ result.op # "__exit__" /\ context_exit

\* the except clause without sys.exit(1)
cli_left_exit_zero ==
    /\ cli.pc \in {"leave", "return", "raise"} /\ result.op = "__exit__"
    /\ cli' = [cli EXCEPT !.pc = "exited",
                          !.code = 0,
                          !.messages = @ \cup (CASE cli.pc = "raise"  -> {"Error during analysis"}
                                                 [] cli.pc = "leave"  -> {"Analysis completed successfully"}
                                                 [] cli.pc = "return" -> {})]
    /\ UNCHANGED <<file, scope, data_loaded, conn, conns, result, other>>

\* after __exit__: an exception reaches 'except Exception' (lines 152-154): an
\* error message and sys.exit(1); the return ends main; the end of the block
\* is followed by the success message (lines 156-157)
cli_left ==
    /\ cli.pc \in {"leave", "return", "raise"} /\ result.op = "__exit__"
    /\ cli' = [cli EXCEPT !.pc = "exited",
                          !.code = IF cli.pc = "raise" THEN 1 ELSE 0,
                          !.messages = @ \cup (CASE cli.pc = "raise"  -> {"Error during analysis"}
                                                 [] cli.pc = "leave"  -> {"Analysis completed successfully"}
                                                 [] cli.pc = "return" -> {})]
    /\ UNCHANGED <<file, scope, data_loaded, conn, conns, result, other>>

\* ---------------------------------------------------------------------------
\* Specification
\* ---------------------------------------------------------------------------
\* after RiskAnalyzer(data_path): the file exists, nothing is loaded
Init ==
    /\ file \in Files
    /\ scope = "plain"
    /\ other = NoOther
    /\ cli = NoCli
    /\ data_loaded = FALSE
    /\ conn = 0
    /\ conns = <<>>
    /\ result = [op |-> "init", args |-> NoArgs, status |-> "ok", error |-> "", conn |-> 0,
                 dims |-> <<>>, rows |-> <<>>]

Next ==
    \/ \E levels \in LevelLists, w \in BOOLEAN, t \in BOOLEAN : compute_risk(levels, w, t)
    \/ compute_state_risk_rates
    \/ compute_temporal_patterns
    \/ compute_weather_risk
    \/ generate_summary_report
    \/ close

Spec == Init /\ [][Next]_vars

\* the objects from their construction on: a DataLoader, or a RiskAnalyzer used
\* through its with block, on a path that may name no file
InitLifecycle ==
    /\ file \in Files \cup {MissingFile}
    /\ scope = "none"
    /\ other = NoOther
    /\ cli = NoCli
    /\ data_loaded = FALSE
    /\ conn = 0
    /\ conns = <<>>
    /\ result = Outcome("none", "", 0)

NextLifecycle ==
    \/ new_DataLoader
    \/ context_enter
    \/ \E levels \in LevelLists, w \in BOOLEAN, t \in BOOLEAN : compute_risk(levels, w, t)
    \/ compute_state_risk_rates
    \/ compute_temporal_patterns
    \/ compute_weather_risk
    \/ generate_summary_report
    \/ close
    \/ context_exit

SpecLifecycle == InitLifecycle /\ [][NextLifecycle]_vars

\* a DataLoader after DataLoader(data_path), used on its own
InitLoader ==
    /\ file \in LoaderFiles
    /\ scope = "loader"
    /\ other = NoOther
    /\ cli = NoCli
    /\ data_loaded = FALSE
    /\ conn = 0
    /\ conns = <<>>
    /\ result = Outcome("DataLoader", "", 0)

NextLoader ==
    \/ loader_load_to_duckdb
    \/ validate_data
    \/ \E size \in FileSizes : estimate_memory_usage(size)

SpecLoader == InitLoader /\ [][NextLoader]_vars

\* the files whose connections are followed: one that cannot be ingested, and
\* complete files with no row, two rows and six rows
ConnFiles == {MalformedFile} \cup {CsvFile(KeyColumnSet, b) : b \in {EmptyBag, TwoRowsCA, MixedFile}}

\* a DataLoader and the holder of the connections it returns
InitLoaderConns ==
    /\ file \in ConnFiles
    /\ scope = "loader"
    /\ other = NoOther
    /\ cli = NoCli
    /\ data_loaded = FALSE
    /\ conn = 0
    /\ conns = <<>>
    /\ result = Outcome("DataLoader", "", 0)

NextLoaderConns ==
    \/ loader_load_to_duckdb
    \/ \E n_rows \in SampleSizes : load_sample(n_rows)
    \/ validate_data
    \/ get_column_info
    \/ \E size \in FileSizes : estimate_memory_usage(size)
    \/ \E h \in 1..MaxConns : owner_close(h)

SpecLoaderConns == InitLoaderConns /\ [][NextLoaderConns]_vars

\* a run of main: its arguments parsed, nothing done yet (code -1: running)
InitCli ==
    /\ file \in CliFiles
    /\ scope = "none"
    /\ other = NoOther
    /\ cli \in [pc : {"start"}, args : CliArgs, out : OutStates, created : {FALSE},
                 files : {{}}, messages : {{}}, invoked : {<<>>}, code : {-1}]
    /\ data_loaded = FALSE
    /\ conn = 0
    /\ conns = <<>>
    /\ result = Outcome("main", "", 0)

NextCli ==
    \/ cli_check_data
    \/ cli_mkdir
    \/ cli_with
    \/ cli_entered
    \/ cli_summary
    \/ cli_risk
    \/ cli_temporal
    \/ cli_weather
    \/ cli_rates
    \/ cli_after_call
    \/ cli_visualizer
    \/ cli_exit
    \/ cli_left

SpecCli == InitCli /\ [][NextCli]_vars

\* the caller of two analyzers turns from the one it used to the other: the
\* fields of the analyzer in use are data_loaded, conn and result, those of the
\* analyzer at rest are kept in other
turn_to_other ==
    /\ other.exists
    /\ scope = "plain"
    /\ other' = [exists |-> TRUE, active |-> 3 - other.active, data_loaded |-> data_loaded,
                 conn |-> conn, result |-> result]
    /\ data_loaded' = other.data_loaded
    /\ conn' = other.conn
    /\ result' = other.result
    /\ UNCHANGED <<cli, file, scope, conns>>

\* the files two analyzers are constructed on
TwoFiles == {MalformedFile} \cup {CsvFile(KeyColumnSet, b) : b \in {TwoRowsCA, MixedFile}}

\* the levels lists passed to compute_risk of either analyzer
TwoLevelLists == {<<"State">>, <<"Region">>}

\* after a = RiskAnalyzer(data_path); b = RiskAnalyzer(data_path) on the same
\* file: two objects with fields of their own, nothing loaded
InitTwo ==
    /\ file \in TwoFiles
    /\ scope = "plain"
    /\ cli = NoCli
    /\ data_loaded = FALSE
    /\ conn = 0
    /\ conns = <<>>
    /\ result = Outcome("init", "", 0)
    /\ other = [exists |-> TRUE, active |-> 1, data_loaded |-> FALSE, conn |-> 0,
                result |-> Outcome("init", "", 0)]

NextTwo ==
    \/ \E levels \in TwoLevelLists : compute_risk(levels, FALSE, FALSE)
    \/ compute_state_risk_rates
    \/ compute_temporal_patterns
    \/ compute_weather_risk
    \/ generate_summary_report
    \/ close
    \/ turn_to_other

SpecTwo == InitTwo /\ [][NextTwo]_vars

\* ---------------------------------------------------------------------------
\* Properties: the load state of the analyzer
\* ---------------------------------------------------------------------------
AnalysisOps ==
    {"compute_risk", "compute_state_risk_rates", "compute_temporal_patterns",
     "compute_weather_risk", "generate_summary_report"}

\* the connections whose load succeeded
LoadedConns == {h \in 1..Len(conns) : conns[h].loaded}

\* close() has not closed a loaded connection so far
NoCloseYet == \A h \in LoadedConns : conns[h].open

\* C1 as stated: construction loads nothing and, with no close() so far, once an
\* analysis operation has run load_to_duckdb has been invoked exactly once.
C1_LoadInvokedExactlyOnce ==
    /\ result.op = "init" => conns = <<>> /\ ~data_loaded /\ conn = 0
    /\ (NoCloseYet /\ result.op \in AnalysisOps) => Len(conns) = 1

\* C1 as amended: construction loads nothing; with no close() so far the load has
\* succeeded at most once, the successful load is the last invocation of
\* load_to_duckdb (nothing loads again after it), the analyzer holds that handle,
\* and every operation that got past loading ran against it; an operation whose
\* load raised leaves the analyzer unloaded, so the next operation invokes load again.
C1_LoadSucceedsOnce ==
    /\ result.op = "init" => conns = <<>> /\ ~data_loaded /\ conn = 0
    /\ NoCloseYet =>
        /\ Cardinality(LoadedConns) <= 1
        /\ \A h \in LoadedConns : h = Len(conns) /\ data_loaded /\ conn = h
        /\ (result.op \in AnalysisOps /\ result.error # "LoadError") =>
                /\ data_loaded
                /\ result.conn = conn
                /\ conn \in LoadedConns
        /\ (result.op \in AnalysisOps /\ result.error = "LoadError") =>
                ~data_loaded /\ LoadedConns = {}

\* an analysis operation has run against the one handle loaded so far
C1_Witness ==
    /\ result.op \in AnalysisOps /\ result.status = "ok"
    /\ NoCloseYet /\ data_loaded
    /\ Len(conns) = 1 /\ result.conn = 1

\* C2: a step that takes the analyzer from loaded to unloaded is a close() and
\* closes its handle; close() on a loaded analyzer always does so; the analysis
\* operation that follows a close() invokes load again and, when the load
\* succeeds, runs against a new open handle, not the closed one.
C2_CloseResets ==
    [][ /\ (data_loaded /\ ~data_loaded') => (result'.op = "close" /\ ~conns'[conn].open)
        /\ (result'.op = "close" /\ data_loaded) => (~data_loaded' /\ ~conns'[conn].open)
        /\ (result'.op \in AnalysisOps /\ ~data_loaded /\ conn # 0) =>
                /\ Len(conns') = Len(conns) + 1
                /\ result'.error # "ConnectionException"
                /\ result'.error # "LoadError" =>
                        /\ result'.conn = Len(conns')
                        /\ result'.conn # conn
                        /\ conns'[result'.conn].open
                        /\ data_loaded' /\ conn' = result'.conn
      ]_vars

\* an operation has run on a second handle after the first one was closed
C2_Witness ==
    /\ result.op \in AnalysisOps /\ result.status = "ok"
    /\ Len(conns) = 2 /\ result.conn = 2
    /\ conns[1].loaded /\ ~conns[1].open /\ conns[2].open

\* C3 as stated: in the whole lifetime of the analyzer the dataset is loaded at
\* most once and no loaded handle is ever closed.
C3_LoadedOnceNeverInvalidated ==
    /\ Cardinality(LoadedConns) <= 1
    /\ \A h \in LoadedConns : conns[h].open

\* C3 as amended: only close() invalidates a handle or unloads the analyzer: every
\* other operation leaves each existing connection as it is and, on a loaded
\* analyzer, loads nothing and keeps the handle; at any time at most one loaded
\* handle is open.
C3_LoadedOncePerClose ==
    /\ [](Cardinality({h \in LoadedConns : conns[h].open}) <= 1)
    /\ [][ result'.op # "close" =>
            /\ \A h \in 1..Len(conns) : conns'[h] = conns[h]
            /\ data_loaded => (data_loaded' /\ conn' = conn /\ conns' = conns)
         ]_vars

\* the dataset has been loaded a second time, after a close()
C3_Witness ==
    /\ Cardinality(LoadedConns) = 2
    /\ data_loaded /\ conn = 2 /\ ~conns[1].open

\* ---------------------------------------------------------------------------
\* Properties: compute_risk
\* ---------------------------------------------------------------------------
\* the last call returned the rows of op
Returned(op) == result.op = op /\ result.status = "ok"

\* the three key fields are present: start time, state (non-empty), severity
AllKeysPresent(r) ==
    /\ r.Start_Time # Null
    /\ r.State # Null /\ r.State # Val("")
    /\ r.Severity # Null

\* number of occurrences of x in the sequence s
Occurrences(x, s) == Cardinality({i \in 1..Len(s) : s[i] = x})

\* the dimensions compute_risk is to group by, as the list of their names
ExpectedDims(levels, include_weather, include_time) ==
    <<"year">> \o levels
        \o (IF include_weather /\ Occurrences("Weather_Condition", levels) = 0
            THEN <<"Weather_Condition">> ELSE <<>>)
        \o (IF include_time THEN <<"month", "hour">> ELSE <<>>)

\* C4: whenever compute_risk has built its query, the GROUP BY list is year, the
\* levels in the order given, Weather_Condition iff include_weather and it is not
\* among the levels, then month and hour iff include_time; Weather_Condition
\* occurs as often as in the levels, or once when added; every returned row has
\* one key value per dimension.
C4_GroupingDimensions ==
    (result.op = "compute_risk" /\ result.error # "LoadError") =>
        LET a    == result.args
            want == ExpectedDims(a.levels, a.include_weather, a.include_time)
            names == [i \in 1..Len(result.dims) |-> result.dims[i][1]]
        IN  /\ \A i \in 1..Len(result.dims) : Len(result.dims[i]) = 1
            /\ names = want
            /\ Occurrences("Weather_Condition", names) =
                    IF Occurrences("Weather_Condition", a.levels) > 0
                    THEN Occurrences("Weather_Condition", a.levels)
                    ELSE IF a.include_weather THEN 1 ELSE 0
            /\ \A i \in 1..Len(result.rows) : Len(result.rows[i].key) = Len(want)

\* compute_risk returned rows for levels that already hold Weather_Condition,
\* with both flags set
C4_Witness ==
    /\ Returned("compute_risk") /\ result.rows # <<>>
    /\ result.args.include_weather /\ result.args.include_time
    /\ InList("Weather_Condition", result.args.levels)
    /\ Len(result.args.levels) = 3

\* the value of the dimension named d on a source row
DimValue(d, r) ==
    CASE d = "year"  -> IF r.Start_Time = Null THEN Null ELSE Val(r.Start_Time[1])
      [] d = "month" -> IF r.Start_Time = Null THEN Null ELSE Val(r.Start_Time[2])
      [] d = "hour"  -> IF r.Start_Time = Null THEN Null ELSE Val(r.Start_Time[4])
      [] OTHER       -> r[d]

\* the source row r has the grouping key of the compute_risk output row g
HasRiskKey(r, g) == \A i \in 1..Len(result.dims) : DimValue(result.dims[i][1], r) = g.key[i]

RECURSIVE SumCounts(_)
SumCounts(rows) ==
    IF rows = <<>> THEN 0 ELSE Head(rows).accident_count + SumCounts(Tail(rows))

\* C5: the rows compute_risk returns have pairwise distinct keys, each
\* accident_count is the number of source rows with all three key fields present
\* and that key, and the counts sum to the number of such source rows, whatever
\* the levels and the flags.
C5_DistinctKeysAndCounts ==
    Returned("compute_risk") =>
        /\ \A i, j \in 1..Len(result.rows) : i # j => result.rows[i].key # result.rows[j].key
        /\ \A i \in 1..Len(result.rows) :
              LET g == result.rows[i]
                  InGroup(r) == AllKeysPresent(r) /\ HasRiskKey(r, g)
              IN  g.accident_count = SumFn(file.rows, {r \in Rows : InGroup(r)})
        /\ SumCounts(result.rows) = SumFn(file.rows, {r \in Rows : AllKeysPresent(r)})

\* compute_risk returned several groups, one of several rows, on a file that
\* also holds rows the filter drops
C5_Witness ==
    /\ Returned("compute_risk") /\ Len(result.rows) >= 2
    /\ \E i \in 1..Len(result.rows) : result.rows[i].accident_count >= 2
    /\ SumFn(file.rows, {r \in Rows : AllKeysPresent(r)}) < SumFn(file.rows, Rows)

\* C6: in the rows compute_risk returns, from one row to the next either the year
\* increases, or it is the same and accident_count does not increase.
C6_SortedByYearThenCount ==
    Returned("compute_risk") =>
        \A i \in 1..(Len(result.rows) - 1) :
            LET a == result.rows[i]
                b == result.rows[i + 1]
            IN  \/ a.key[1][1] < b.key[1][1]
                \/ a.key[1][1] = b.key[1][1] /\ a.accident_count >= b.accident_count

\* compute_risk returned two groups of one year with different counts, and a
\* group of a later year
C6_Witness ==
    /\ Returned("compute_risk")
    /\ \E i \in 1..(Len(result.rows) - 1) :
          /\ result.rows[i].key[1] = result.rows[i + 1].key[1]
          /\ result.rows[i].accident_count > result.rows[i + 1].accident_count
    /\ \E i \in 1..(Len(result.rows) - 1) :
          result.rows[i].key[1][1] < result.rows[i + 1].key[1][1]

\* ---------------------------------------------------------------------------
\* Properties: which rows the aggregations count
\* ---------------------------------------------------------------------------
\* the rows of Rows that occur in the source file
SourceRows == {r \in Rows : file.rows[r] > 0}

\* one fact per count an operation reports: the table it belongs to, the count,
\* and the source rows that have the key of the count (every row for a total)
CountFacts ==
    LET Group(t, n, M(_)) == [table |-> t, count |-> n, members |-> {r \in SourceRows : M(r)}]
        Total(t, rows)    == [table |-> t, count |-> SumCounts(rows), members |-> SourceRows]
        Pattern(t, rows, KeyOf(_)) ==
            {[table |-> t, count |-> rows[i].accident_count,
              members |-> {r \in SourceRows : r.Start_Time # Null /\ KeyOf(r) = rows[i].key}]
             : i \in 1..Len(rows)} \cup {Total(t, rows)}
    IN  CASE Returned("compute_risk") ->
                {[table |-> "risk", count |-> result.rows[i].accident_count,
                  members |-> {r \in SourceRows : HasRiskKey(r, result.rows[i])}]
                 : i \in 1..Len(result.rows)} \cup {Total("risk", result.rows)}
          [] Returned("compute_state_risk_rates") ->
                {[table |-> "rates", count |-> result.rows[i].total_accidents,
                  members |-> {r \in SourceRows : /\ r.Start_Time # Null
                                                  /\ r.Start_Time[1] = result.rows[i].year
                                                  /\ r.State = Val(result.rows[i].State)}]
                 : i \in 1..Len(result.rows)}
          [] Returned("compute_temporal_patterns") ->
                Pattern("hourly", result.rows.hourly, HourOf)
                    \cup Pattern("daily", result.rows.daily, DowOf)
                    \cup Pattern("monthly", result.rows.monthly, MonthOf)
                    \cup Pattern("seasonal", result.rows.seasonal, SeasonOf)
          [] Returned("compute_weather_risk") ->
                {[table |-> "weather", count |-> result.rows[i].accident_count,
                  members |-> {r \in SourceRows :
                                  /\ r.State = Val(result.rows[i].State)
                                  /\ r.Weather_Condition = Val(result.rows[i].Weather_Condition)}]
                 : i \in 1..Len(result.rows)} \cup {Total("weather", result.rows)}
          [] Returned("generate_summary_report") ->
                {[table |-> "total", count |-> result.rows.total_accidents, members |-> SourceRows]}
                    \cup {[table |-> "top_states", count |-> result.rows.top_states[i].accidents,
                           members |-> {r \in SourceRows :
                                           r.State = Val(result.rows.top_states[i].State)}]
                          : i \in 1..Len(result.rows.top_states)}
                    \cup {[table |-> "severity",
                           count |-> result.rows.severity_distribution[i].count,
                           members |-> {r \in SourceRows :
                                           r.Severity = Val(result.rows.severity_distribution[i].Severity)}]
                          : i \in 1..Len(result.rows.severity_distribution)}
          [] OTHER -> {}

\* C7 as stated: no count of any aggregation includes a source row whose start
\* time is null, whose state is null or empty, or whose severity is null.
C7_NoCountOfIncompleteRows ==
    \A f \in CountFacts :
        f.count <= SumFn(file.rows, {r \in f.members : AllKeysPresent(r)})

\* the rows an aggregation counts, by the WHERE clause of its own query
OwnFilter(t, r) ==
    CASE t \in {"risk", "rates"} -> AllKeysPresent(r)
      [] t \in {"hourly", "daily", "monthly", "seasonal"} -> r.Start_Time # Null
      [] t = "weather" ->
            /\ r.State # Null /\ r.State # Val("")
            /\ r.Weather_Condition # Null /\ r.Weather_Condition # Val("")
            /\ r.Severity # Null
      [] t = "total" -> TRUE
      [] t = "top_states" -> r.State # Null /\ r.State # Val("")
      [] t = "severity" -> r.Severity # Null

\* C7 as amended: every count is the number of source rows of its group that
\* pass the WHERE clause of its own query: all three key fields for compute_risk
\* and the state rates; a start time alone for the four temporal patterns;
\* state, weather (non-empty) and severity for the weather risk; every row for
\* the summary's total, a non-empty state for its top states, a severity for its
\* severity distribution.
C7_CountsByOwnFilter ==
    \A f \in CountFacts :
        f.count = SumFn(file.rows, {r \in f.members : OwnFilter(f.table, r)})

\* the temporal patterns counted a row that has a start time but lacks a state
\* or a severity
C7_Witness ==
    /\ Returned("compute_temporal_patterns")
    /\ SumCounts(result.rows.hourly) > SumFn(file.rows, {r \in Rows : AllKeysPresent(r)})

\* ---------------------------------------------------------------------------
\* Properties: state risk rates
\* ---------------------------------------------------------------------------
\* C8: in every row of compute_state_risk_rates, total_accidents and
\* severe_accidents are the numbers of the (year, state) pair's rows with all key
\* fields present, resp. those of severity >= 3; severe <= total; the rate is
\* severe * 100 / total and lies in [0, 100]; ten rows of which three are severe
\* give the rate 30.
C8_SevereRate ==
    Returned("compute_state_risk_rates") =>
        /\ \A i \in 1..Len(result.rows) :
              LET g == result.rows[i]
                  InPair(r) == /\ AllKeysPresent(r)
                               /\ r.Start_Time[1] = g.year
                               /\ r.State[1] = g.State
                  SevereInPair(r) == InPair(r) /\ r.Severity[1] >= 3
                  rate == g.severe_accident_rate
              IN  /\ g.total_accidents = SumFn(file.rows, {r \in Rows : InPair(r)})
                  /\ g.severe_accidents = SumFn(file.rows, {r \in Rows : SevereInPair(r)})
                  /\ g.severe_accidents <= g.total_accidents
                  /\ g.total_accidents > 0 /\ rate[2] > 0
                  /\ rate[1] * g.total_accidents = g.severe_accidents * 100 * rate[2]
                  /\ 0 <= rate[1] /\ rate[1] <= 100 * rate[2]
        /\ file.rows = TenRowsCA =>
              /\ Len(result.rows) = 1
              /\ result.rows[1].severe_accident_rate[1] = 30 * result.rows[1].severe_accident_rate[2]

\* the rates of the file with ten CA rows, three of them severe
C8_Witness ==
    /\ Returned("compute_state_risk_rates")
    /\ file.rows = TenRowsCA
    /\ result.rows[1].total_accidents = 10 /\ result.rows[1].severe_accidents = 3

\* ---------------------------------------------------------------------------
\* Properties: weather risk
\* ---------------------------------------------------------------------------
\* the rows the weather query counts for the state s
CountedForState(s) ==
    {r \in SourceRows : /\ r.State = Val(s)
                        /\ r.Weather_Condition # Null /\ r.Weather_Condition # Val("")
                        /\ r.Severity # Null}

\* the output rows of the state s
RowsOfState(s) == {i \in 1..Len(result.rows) : result.rows[i].State = s}

\* C9: for each state of the compute_weather_risk output, the weather_rank values
\* are 1..k without repeats, k the number of distinct weather conditions among the
\* state's counted rows, and a row ranked 1 has the largest count of the state.
C9_WeatherRank ==
    Returned("compute_weather_risk") =>
        \A s \in {result.rows[i].State : i \in 1..Len(result.rows)} :
            LET k == Cardinality({r.Weather_Condition : r \in CountedForState(s)})
            IN  /\ Cardinality(RowsOfState(s)) = k
                /\ {result.rows[i].weather_rank : i \in RowsOfState(s)} = 1..k
                /\ \A i, j \in RowsOfState(s) :
                      result.rows[i].weather_rank = 1 =>
                          result.rows[i].accident_count >= result.rows[j].accident_count

\* two weather conditions of one state have equal counts
C9_Witness ==
    /\ Returned("compute_weather_risk")
    /\ \E i, j \in 1..Len(result.rows) :
          /\ i # j
          /\ result.rows[i].State = result.rows[j].State
          /\ result.rows[i].accident_count = result.rows[j].accident_count

\* exact fractions <<numerator, denominator>>
FracAdd(a, b) == <<a[1] * b[2] + b[1] * a[2], a[2] * b[2]>>
FracEq(a, b) == a[1] * b[2] = b[1] * a[2]

RECURSIVE SumPercentages(_)
SumPercentages(S) ==
    IF S = {} THEN <<0, 1>>
    ELSE LET i == CHOOSE j \in S : TRUE
         IN  FracAdd(result.rows[i].state_percentage, SumPercentages(S \ {i}))

\* C10: in every row of compute_weather_risk, state_percentage is the row's count
\* times 100 divided by the number of rows counted for its state, and the
\* percentages of the rows of one state sum to 100.
C10_StatePercentage ==
    Returned("compute_weather_risk") =>
        /\ \A i \in 1..Len(result.rows) :
              LET g == result.rows[i]
              IN  /\ g.state_percentage[2] > 0
                  /\ FracEq(g.state_percentage,
                            <<g.accident_count * 100, SumFn(file.rows, CountedForState(g.State))>>)
        /\ \A s \in {result.rows[i].State : i \in 1..Len(result.rows)} :
              FracEq(SumPercentages(RowsOfState(s)), <<100, 1>>)

\* the output has two states, one of them with two weather conditions
C10_Witness ==
    /\ Returned("compute_weather_risk")
    /\ Cardinality({result.rows[i].State : i \in 1..Len(result.rows)}) = 2
    /\ \E i, j \in 1..Len(result.rows) :
          /\ result.rows[i].State = result.rows[j].State
          /\ result.rows[i].Weather_Condition # result.rows[j].Weather_Condition

\* ---------------------------------------------------------------------------
\* Properties: compute_temporal_patterns
\* ---------------------------------------------------------------------------
SeasonNames == {"Winter", "Spring", "Summer", "Fall"}

\* the months of a season
SeasonMonths(s) ==
    CASE s = "Winter" -> {12, 1, 2}
      [] s = "Spring" -> {3, 4, 5}
      [] s = "Summer" -> {6, 7, 8}
      [] s = "Fall"   -> {9, 10, 11}

\* the source rows with a start time
TimedRows == {r \in Rows : r.Start_Time # Null}

\* C11: every month 1..12 is mapped to exactly one of the four seasons, Winter
\* (12, 1, 2), Spring (3, 4, 5), Summer (6, 7, 8), Fall (9, 10, 11); every row of
\* the seasonal table carries one of the four seasons and counts the source rows
\* whose start month belongs to it, and the season counts sum to the number of
\* source rows with a non-null start time.
C11_SeasonalCounts ==
    /\ \A m \in 1..12 :
          /\ Cardinality({s \in SeasonNames : Season(m) = Val(s)}) = 1
          /\ \A s \in SeasonNames : Season(m) = Val(s) <=> m \in SeasonMonths(s)
    /\ Returned("compute_temporal_patterns") =>
          LET S == result.rows.seasonal
          IN  /\ \A i \in 1..Len(S) :
                    /\ S[i].key \in {Val(s) : s \in SeasonNames}
                    /\ S[i].accident_count =
                          SumFn(file.rows, {r \in TimedRows : r.Start_Time[2] \in SeasonMonths(S[i].key[1])})
              /\ SumCounts(S) = SumFn(file.rows, TimedRows)

\* the seasonal table counts one of the two rows of a file whose other row has
\* no start time
C11_Witness ==
    /\ Returned("compute_temporal_patterns")
    /\ SumFn(file.rows, Rows) = 2
    /\ SumCounts(result.rows.seasonal) = 1

\* the keys of the rows of s are distinct values of lo..hi in ascending order
AscendingKeys(s, lo, hi) ==
    /\ \A i \in 1..Len(s) : s[i].key \in lo..hi
    /\ \A i, j \in 1..Len(s) : i < j => s[i].key < s[j].key

\* C12: compute_temporal_patterns returns exactly the four tables hourly, daily,
\* monthly and seasonal; the hourly rows have distinct keys in 0..23 in ascending
\* order, the daily rows distinct keys in 0..6 ascending, the monthly rows
\* distinct keys in 1..12 ascending, and the seasonal rows come by accident_count
\* descending.
C12_TemporalTables ==
    Returned("compute_temporal_patterns") =>
        /\ DOMAIN result.rows = {"hourly", "daily", "monthly", "seasonal"}
        /\ AscendingKeys(result.rows.hourly, 0, 23)
        /\ AscendingKeys(result.rows.daily, 0, 6)
        /\ AscendingKeys(result.rows.monthly, 1, 12)
        /\ \A i, j \in 1..Len(result.rows.seasonal) :
              i < j => result.rows.seasonal[i].accident_count >= result.rows.seasonal[j].accident_count

\* every table has two rows, the two seasons with different counts
C12_Witness ==
    /\ Returned("compute_temporal_patterns")
    /\ Len(result.rows.hourly) = 2 /\ Len(result.rows.daily) = 2 /\ Len(result.rows.monthly) = 2
    /\ Len(result.rows.seasonal) = 2
    /\ result.rows.seasonal[1].accident_count > result.rows.seasonal[2].accident_count

\* ---------------------------------------------------------------------------
\* Properties: generate_summary_report
\* ---------------------------------------------------------------------------
\* C13 as stated: in the severity distribution of generate_summary_report the
\* percentage of every severity level is the level's count times 100 divided by
\* the total_accidents the same report carries, whatever the dataset.
C13_PercentageOfTotalAccidents ==
    Returned("generate_summary_report") =>
        \A i \in 1..Len(result.rows.severity_distribution) :
            LET d == result.rows.severity_distribution[i]
            IN  /\ d.percentage[2] > 0
                /\ FracEq(d.percentage, <<d.count * 100, result.rows.total_accidents>>)

\* ---------------------------------------------------------------------------
\* Properties: repeated calls and failing calls
\* ---------------------------------------------------------------------------
\* C14 as stated: an analysis operation called again with the same arguments on
\* the same loaded analyzer returns the rows the call before it returned, in the
\* same order.
C14_SameRowsTwice ==
    [][ ( /\ result.op \in AnalysisOps /\ result.status = "ok" /\ data_loaded
          /\ result'.op = result.op /\ result'.args = result.args )
        => result'.rows = result.rows
      ]_vars

\* C15: compute_risk with a level that is no column of the dataset ends in the
\* engine's binder error, the error of the query as it is (the load itself, when
\* this call triggers it and it fails, is the only other outcome); the failure
\* is confined to the call: the analyzer stays loaded, its handle open and its
\* connections as they were, and a valid operation that follows runs on that
\* same handle without loading again and succeeds.
C15_QueryErrorPropagates ==
    /\ [](( result.op = "compute_risk"
            /\ \E i \in 1..Len(result.args.levels) : result.args.levels[i] \notin Columns )
          => /\ result.status = "error"
             /\ result.error \in {"BinderException", "LoadError"}
             /\ result.rows = <<>>
             /\ result.error = "BinderException" =>
                    /\ data_loaded /\ conn # 0 /\ result.conn = conn
                    /\ conns[conn].open /\ conns[conn].loaded)
    /\ [][ ( /\ result.error = "BinderException"
             /\ result'.op \in AnalysisOps
             /\ \A i \in 1..Len(result'.args.levels) : result'.args.levels[i] \in Columns )
           => /\ result'.status = "ok"
              /\ result'.conn = conn
              /\ UNCHANGED <<data_loaded, conn, conns>>
         ]_vars

\* a failed compute_risk(['Region']) has been followed by an operation that
\* succeeded on the handle the failed call used
C15_Witness ==
    /\ result.error = "BinderException"
    /\ InList("Region", result.args.levels)
    /\ data_loaded /\ conns[conn].open
    /\ ENABLED (compute_weather_risk /\ result'.status = "ok" /\ conns' = conns)

\* C17: a load that fails closes the connection it opened before the error
\* leaves load_to_duckdb; the operation that triggered the load ends in that
\* error with no rows; the analyzer is left unloaded and holds no open handle;
\* and the next analysis operation invokes load again.
C17_FailedLoadLeavesNothing ==
    /\ [](result.error = "LoadError" =>
            /\ result.op \in AnalysisOps /\ result.status = "error" /\ result.rows = <<>>
            /\ ~data_loaded
            /\ conn = 0 \/ ~conns[conn].open
            /\ ~conns[Len(conns)].open /\ ~conns[Len(conns)].loaded)
    /\ [][ (result'.op \in AnalysisOps /\ ~file.ok)
           => /\ result'.error = "LoadError"
              /\ Len(conns') = Len(conns) + 1
              /\ ~conns'[Len(conns')].open
              /\ \A h \in 1..Len(conns) : conns'[h] = conns[h]
         ]_vars

\* two operations in a row have failed to load, each on a connection of its own
C17_Witness ==
    /\ result.error = "LoadError"
    /\ Len(conns) = 2
    /\ ~conns[1].open /\ ~conns[2].open

\* ---------------------------------------------------------------------------
\* Properties: construction and the context manager
\* ---------------------------------------------------------------------------
\* C16: on a path that names no file the construction of a DataLoader and of a
\* RiskAnalyzer fails with the file-not-found error, no connection has been
\* opened, and the caller holds no object, at the failure and ever after; only
\* a path that names no file makes a construction fail.
C16_ConstructionFailsOnMissingFile ==
    /\ [](~file.exists =>
            /\ scope = "none"
            /\ conns = <<>> /\ conn = 0 /\ ~data_loaded
            /\ result.op \in {"DataLoader", "init"} =>
                    result.status = "error" /\ result.error = "FileNotFoundError")
    /\ [](result.error = "FileNotFoundError" => ~file.exists /\ result.op \in {"DataLoader", "init"})
    /\ [][~file.exists => (result'.error = "FileNotFoundError" /\ scope' = "none" /\ conns' = <<>>)]_vars

\* the construction of a RiskAnalyzer has failed on a path that names no file
C16_Witness ==
    /\ ~file.exists
    /\ result.op = "init" /\ result.error = "FileNotFoundError"
    /\ scope = "none" /\ conns = <<>>

\* C19: when the with block of a RiskAnalyzer has been left, every connection
\* is closed and the analyzer is unloaded, whether the block ended normally or
\* early or by an exception (a failed query, a failed load); an exception that
\* left the block is the outcome the caller of the with statement gets, not
\* suppressed; and an exception raised in the block leaves the block at once.
C19_ContextManagerCloses ==
    /\ [](scope = "left" =>
            /\ ~data_loaded
            /\ \A h \in 1..Len(conns) : ~conns[h].open
            /\ result.op = "__exit__")
    /\ [][ scope = "with" =>
            /\ result.status = "error" => (scope' = "left" /\ result'.status = "error"
                                           /\ result'.error = result.error)
            /\ scope' = "left" =>
                    /\ result'.status = result.status
                    /\ conn # 0 => ~conns'[conn].open
                    /\ conn' = conn
         ]_vars

\* the block has been left by the error of a query on a loaded handle, which is
\* now closed
C19_Witness ==
    /\ scope = "left"
    /\ result.error = "BinderException"
    /\ conn # 0 /\ conns[conn].loaded /\ ~conns[conn].open
    /\ ~data_loaded

\* ---------------------------------------------------------------------------
\* Properties: the DataLoader on its own
\* ---------------------------------------------------------------------------
\* C18 as stated: on a file that loads, whichever key columns are absent,
\* validate_data returns a report: no missing-value entry for an absent column
\* and an entry for each present one, date range / severity range / unique
\* state count none exactly when their column is absent.
C18_ValidationToleratesAbsentColumns ==
    (result.op = "validate_data" /\ file.ok) =>
        /\ result.status = "ok"
        /\ DOMAIN result.rows.missing_values = KeyColumnSet \cap file.columns
        /\ result.rows.date_range = Null <=> "Start_Time" \notin file.columns
        /\ result.rows.severity_range = Null <=> "Severity" \notin file.columns
        /\ result.rows.unique_states = Null <=> "State" \notin file.columns

\* C20: estimate_memory_usage reports as estimated size the file size in MB
\* divided by 2.5 (compared here in units of 1/1024 MB, the file size being mb[1]
\* of them) and recommends 'DuckDB' exactly when the estimate is above
\* 1000, 'Pandas' otherwise, also at exactly 1000; the call changes nothing of
\* the loader or its connections, and load_to_duckdb behaves as the file alone
\* decides, whatever was recommended before.
C20_MemoryEstimate ==
    /\ [](result.op = "estimate_memory_usage" =>
            LET mb  == result.rows.file_size_mb
                est == result.rows.estimated_memory_mb
            IN  /\ mb[2] = 1024 /\ mb[1] \in FileSizes
                /\ est[2] % 1024 = 0
                /\ FracEq(<<est[1], est[2] \div 1024>>, <<mb[1] * 10, 25>>)
                /\ result.rows.recommended_approach \in {"DuckDB", "Pandas"}
                /\ result.rows.recommended_approach = "DuckDB" <=> mb[1] * 10 > 1000 * 25 * mb[2]
                /\ FracEq(est, <<1000, 1>>) => result.rows.recommended_approach = "Pandas")
    /\ [][result'.op = "estimate_memory_usage" => UNCHANGED <<file, scope, data_loaded, conn, conns>>]_vars
    /\ [][result'.op = "load_to_duckdb" =>
            /\ result'.status = "ok" <=> file.ok
            /\ conns' = Append(conns, [open |-> file.ok, loaded |-> file.ok, accidents |-> file.rows])
         ]_vars

\* the estimate of a file of exactly 2500 MB is 1000 and Pandas is recommended
C20_Witness ==
    /\ result.op = "estimate_memory_usage"
    /\ FracEq(result.rows.estimated_memory_mb, <<1000, 1>>)
    /\ result.rows.recommended_approach = "Pandas"

\* ---------------------------------------------------------------------------
\* Properties: the command line
\* ---------------------------------------------------------------------------
\* the with block was entered and has been left, and main is over
BlockLeft == cli.pc = "exited" /\ result.op = "__exit__"

\* C21: a run on a path with no data file ends with status 1 after the message
\* that the file was not found, without constructing an analyzer; an exception
\* raised by a step of the with block is not swallowed: from the step that
\* raises on the run only leaves the block and ends, with a non-zero status,
\* the error message, and no success message.
C21_NonZeroExitOnFailure ==
    /\ [](cli.pc = "exited" =>
            /\ ~file.exists => /\ cli.code = 1 /\ scope = "none" /\ conns = <<>>
                               /\ "Data file not found" \in cli.messages
            /\ result.status = "error" =>
                    /\ cli.code # 0
                    /\ cli.messages \cap {"Error during analysis", "Traceback"} # {}
                    /\ "Analysis completed successfully" \notin cli.messages
            /\ (result.op = "__exit__" /\ result.status = "error") =>
                    cli.code = 1 /\ "Error during analysis" \in cli.messages)
    /\ [](result.status = "error" => cli.pc \in CallStmts \cup {"raise", "exited"})
    /\ [][result.status = "error" => (result'.status = "error" /\ result'.error = result.error)]_vars

\* a run has ended with status 1 after the load of a file that cannot be
\* ingested failed in its first analysis step
C21_Witness ==
    /\ BlockLeft
    /\ result.error = "LoadError"
    /\ cli.code = 1 /\ "Error during analysis" \in cli.messages

\* C26: the output directory exists whenever the analyzer has been constructed
\* and whenever an analysis has been started; nothing of the sort happens
\* before mkdir; once there the directory stays; and it is there at the end of
\* a run that entered the with block and ended non-zero.
C26_OutputDirFirst ==
    /\ []((scope # "none" \/ cli.invoked # <<>> \/ result.op \in AnalysisOps \cup {"init", "__exit__"})
            => cli.out = "dir")
    /\ [](cli.pc \in {"start", "mkdir"} => (scope = "none" /\ cli.invoked = <<>> /\ conns = <<>>))
    /\ [](cli.pc \notin {"start", "mkdir", "exited"} => cli.out = "dir")
    /\ []((BlockLeft /\ cli.code # 0) => cli.out = "dir")
    /\ [][cli.out = "dir" => cli'.out = "dir"]_vars

\* a run that created the directory has ended non-zero after a failed analysis
\* step, and the directory is there
C26_Witness ==
    /\ BlockLeft /\ cli.code = 1
    /\ result.error \in {"LoadError", "BinderException"}
    /\ cli.created /\ cli.out = "dir"

\* C28 as stated: a run whose data file exists and in which no operation of
\* the analyzer or of the visualizer raised has printed the final success
\* message and ends with status 0, whatever the selector, the summary flag and
\* the visualize flag.
C28_SuccessForEveryCombination ==
    ( /\ BlockLeft /\ file.exists
      /\ result.error \notin {"LoadError", "BinderException", "ConnectionException", "VisualizerError"} )
    => (cli.code = 0 /\ "Analysis completed successfully" \in cli.messages)

\* the call of a statement has been made in the run
Invoked(stmt) == InList(stmt, cli.invoked)

\* C29 as stated: at the end of a run without the summary flag compute_risk
\* has been invoked exactly when the selector is risk or all,
\* compute_temporal_patterns exactly when it is temporal or all,
\* compute_weather_risk exactly when it is weather or all, and with the selector
\* severity nothing has been invoked and no file written; at the end of a run
\* with the summary flag only the summary has been generated and written.
C29_DispatchBySelector ==
    BlockLeft =>
        IF ~cli.args.summary
        THEN /\ Invoked("risk") <=> cli.args.analysis \in {"risk", "all"}
             /\ Invoked("temporal") <=> cli.args.analysis \in {"temporal", "all"}
             /\ Invoked("weather") <=> cli.args.analysis \in {"weather", "all"}
             /\ ~Invoked("summary")
             /\ cli.args.analysis = "severity" => (cli.invoked = <<>> /\ cli.files = {})
        ELSE cli.invoked = <<"summary">> /\ cli.files = {"summary_report.json"}

\* the selectors under which the analysis statement stmt is to run
SelectorsOf(stmt) ==
    CASE stmt = "risk"     -> {"risk", "all"}
      [] stmt = "temporal" -> {"temporal", "all"}
      [] stmt = "weather"  -> {"weather", "all"}

\* C29 as amended: at any point of a run, an analysis operation has been
\* invoked only under its selectors and without the summary flag, at most once
\* before the visualizations and in the order risk, temporal, weather; its
\* result file is written only after its call; the selector severity invokes
\* nothing and writes nothing; with the summary flag nothing but the summary is
\* invoked or written.  At the end of a run every selected operation has been
\* invoked unless an earlier step raised and ended the run, and the summary is
\* written exactly when generating it did not raise.
C29_DispatchUntilFailure ==
    /\ \A stmt \in {"risk", "temporal", "weather"} :
          /\ Invoked(stmt) => (~cli.args.summary /\ cli.args.analysis \in SelectorsOf(stmt))
          /\ Cardinality({i \in 1..Len(cli.invoked) : cli.invoked[i] = stmt}) <= 1
          /\ (BlockLeft /\ ~cli.args.summary /\ cli.args.analysis \in SelectorsOf(stmt) /\ ~Invoked(stmt)) =>
                /\ cli.code = 1 /\ result.status = "error"
                /\ cli.invoked # <<>>
                /\ cli.invoked[Len(cli.invoked)] \in {"risk", "temporal", "weather"}
    /\ \A i, j \in 1..Len(cli.invoked) :
          (i < j /\ cli.invoked[j] \in {"risk", "temporal", "weather"}) =>
              \/ cli.invoked[i] = "risk"
              \/ cli.invoked[i] = "temporal" /\ cli.invoked[j] = "weather"
    /\ "risk_metrics.csv" \in cli.files => Invoked("risk")
    /\ "weather_analysis.csv" \in cli.files => Invoked("weather")
    /\ cli.files \cap {"temporal_hourly.csv", "temporal_daily.csv", "temporal_monthly.csv",
                       "temporal_seasonal.csv"} # {} => Invoked("temporal")
    /\ (cli.args.analysis = "severity" /\ ~cli.args.summary) => (cli.invoked = <<>> /\ cli.files = {})
    /\ cli.args.summary =>
          /\ cli.invoked \in {<<>>, <<"summary">>}
          /\ cli.files \subseteq {"summary_report.json"}
          /\ BlockLeft => /\ cli.invoked = <<"summary">>
                          /\ cli.files = {"summary_report.json"} <=> result.status = "ok"
    /\ ~cli.args.summary => (~Invoked("summary") /\ "summary_report.json" \notin cli.files)

\* a run with the selector all has invoked the three analyses in order and has
\* written their six files
C29_Witness ==
    /\ BlockLeft /\ cli.code = 0
    /\ cli.args.analysis = "all" /\ ~cli.args.summary
    /\ cli.invoked = <<"risk", "temporal", "weather">>
    /\ Cardinality(cli.files) = 6

\* ---------------------------------------------------------------------------
\* Properties: groups with equal sort keys
\* ---------------------------------------------------------------------------
\* C23 as stated: on the file of the two rows (2020, CA, severity 2) and (2020,
\* CA, severity 4), compute_risk(['State', 'Severity'], include_weather=False,
\* include_time=False) returns exactly two rows, each with accident_count 1,
\* the row of average severity 2 first and the row of average severity 4
\* second.
C23_TieByInputOrder ==
    ( /\ Returned("compute_risk")
      /\ result.args = [levels |-> <<"State", "Severity">>, include_weather |-> FALSE,
                        include_time |-> FALSE]
      /\ conns[result.conn].accidents = TwoRowsCA )
    => /\ Len(result.rows) = 2
       /\ \A i \in 1..Len(result.rows) : result.rows[i].accident_count = 1
       /\ FracEq(result.rows[1].avg_severity, <<2, 1>>)
       /\ FracEq(result.rows[2].avg_severity, <<4, 1>>)

\* ---------------------------------------------------------------------------
\* Properties: the handle of one analyzer
\* ---------------------------------------------------------------------------
\* C25: a step of an analysis operation leaves the file and the relation of
\* every connection there is as they were, opens at most one connection, and,
\* when the analyzer is loaded, leaves its flag, its handle and every
\* connection unchanged, whether the operation returns or raises.
C25_AnalysisReadsOnly ==
    [][result'.op \in AnalysisOps =>
          /\ file' = file
          /\ Len(conns) <= Len(conns') /\ Len(conns') <= Len(conns) + 1
          /\ \A h \in 1..Len(conns) : conns'[h] = conns[h]
          /\ data_loaded => (data_loaded' /\ conn' = conn /\ conns' = conns)
          /\ (data_loaded' /\ ~data_loaded) => conns'[conn'].accidents = file.rows]_vars

\* an analysis operation has raised on a loaded analyzer whose relation holds
\* the rows of the file
C25_Witness ==
    /\ result.op = "compute_risk" /\ result.error = "BinderException"
    /\ data_loaded /\ conn # 0 /\ conns[conn].open
    /\ conns[conn].accidents = file.rows /\ file.rows # EmptyBag

\* C27: the flag is set only while conn is an open connection whose load
\* succeeded; every open connection is the one the analyzer holds, so at most
\* one is open and none is orphaned; and conn is assigned a new connection only
\* when it held none or a closed one.
C27_OneOpenHandle ==
    /\ [](data_loaded => (conn # 0 /\ conns[conn].open /\ conns[conn].loaded))
    /\ [](\A h \in 1..Len(conns) : conns[h].open => (h = conn /\ data_loaded))
    /\ [](Cardinality({h \in 1..Len(conns) : conns[h].open}) <= 1)
    /\ [][conn' # conn => (conn = 0 \/ ~conns[conn].open)]_vars

\* the analyzer has been closed and loaded again: its first connection is
\* closed and it holds the second one, open
C27_Witness ==
    /\ Len(conns) = 2 /\ conn = 2 /\ data_loaded
    /\ conns[2].open /\ ~conns[1].open /\ conns[1].loaded

\* C30: close() on an analyzer that is not loaded, never loaded or closed
\* before, returns without an exception, opens and changes no connection and
\* leaves the analyzer unloaded with the handle it had; a close() after a
\* close() changes nothing at all.
C30_CloseIsIdempotent ==
    /\ [][(result'.op = "close" /\ ~data_loaded) =>
              /\ result'.status = "ok"
              /\ conns' = conns /\ conn' = conn /\ ~data_loaded']_vars
    /\ [][(result'.op = "close" /\ result.op = "close") => vars' = vars]_vars
    /\ [](result.op = "close" => (result.status = "ok" /\ ~data_loaded
                                  /\ \A h \in 1..Len(conns) : ~conns[h].open))

\* close() has returned on an analyzer that never loaded
C30_Witness ==
    /\ result.op = "close" /\ result.status = "ok"
    /\ conns = <<>> /\ conn = 0 /\ ~data_loaded

\* ---------------------------------------------------------------------------
\* Properties: the connections of the loader
\* ---------------------------------------------------------------------------
\* C24: a step of load_sample, validate_data or get_column_info opens one
\* connection of its own, which is closed when the operation has returned or
\* raised, and touches no other connection; a step of load_to_duckdb leaves its
\* new connection open and returns it when it succeeds, and closed when it
\* raises; and an open connection is closed by nothing but its holder's
\* close(), so every open connection is one load_to_duckdb returned.
C24_ConnectionsOfTheLoader ==
    /\ [][result'.op \in {"load_sample", "validate_data", "get_column_info"} =>
              /\ Len(conns') = Len(conns) + 1
              /\ ~conns'[Len(conns')].open
              /\ \A h \in 1..Len(conns) : conns'[h] = conns[h]]_vars
    /\ [][result'.op = "load_to_duckdb" =>
              /\ Len(conns') = Len(conns) + 1
              /\ \A h \in 1..Len(conns) : conns'[h] = conns[h]
              /\ IF result'.status = "ok"
                 THEN result'.conn = Len(conns') /\ conns'[Len(conns')].open
                 ELSE result'.conn = 0 /\ ~conns'[Len(conns')].open]_vars
    /\ [][\A h \in 1..Len(conns) :
              (conns[h].open /\ ~conns'[h].open) => (result'.op = "conn.close" /\ result'.conn = h)]_vars
    /\ [](\A h \in 1..Len(conns) : conns[h].open => conns[h].loaded)

\* get_column_info has returned while the connection load_to_duckdb returned
\* before is open: its own connection is closed
C24_Witness ==
    /\ result.op = "get_column_info" /\ result.status = "ok"
    /\ Len(conns) = 2
    /\ conns[1].open /\ conns[1].loaded
    /\ ~conns[2].open

\* ---------------------------------------------------------------------------
\* Properties: two analyzers on one file
\* ---------------------------------------------------------------------------
\* C22: two analyzers constructed on the same file never hold the same
\* connection; a step of an operation of one of them, a load, a query or a
\* close, leaves the other's flag, handle and last result as they were, and the
\* connection the other holds, its relation included, as it was; turning from
\* one to the other changes no field of either; and the relation of a loaded
\* analyzer holds the rows of the file whatever was done to the other.
C22_IndependentAnalyzers ==
    /\ []((conn # 0 /\ other.conn # 0) => conn # other.conn)
    /\ [][other'.active = other.active =>
              /\ other' = other
              /\ other.conn # 0 => conns'[other.conn] = conns[other.conn]]_vars
    /\ [][other'.active # other.active =>
              /\ conns' = conns
              /\ <<other'.data_loaded, other'.conn, other'.result>> = <<data_loaded, conn, result>>
              /\ <<data_loaded', conn', result'>> = <<other.data_loaded, other.conn, other.result>>]_vars
    /\ [](other.data_loaded => (conns[other.conn].open /\ conns[other.conn].accidents = file.rows))
    /\ [](data_loaded => (conns[conn].open /\ conns[conn].accidents = file.rows))

\* one analyzer has been closed while the other, loaded on the same file, is
\* at rest: the other's connection is open
C22_Witness ==
    /\ result.op = "close" /\ ~data_loaded /\ conn # 0 /\ ~conns[conn].open
    /\ other.data_loaded /\ other.conn # 0 /\ other.conn # conn /\ conns[other.conn].open
    /\ other.result.status = "ok" /\ other.result.op \in AnalysisOps

====
